---- MODULE Spec2Model ----
(***************************************************************************)
(* Schema-evolution core of the Flask backend: SchemaManager,              *)
(* SchemaVersionControl, MetadataCatalog, ValidationEngine and the EAV     *)
(* FieldValue codec, over one relational store.                            *)
(*                                                                         *)
(* Spec       : sequential behaviour, one action per service call; each    *)
(*              call is one database transaction.                          *)
(* SpecStruct : the structural calls only, with longer histories.          *)
(* SpecAtomic : every call on one schema that has records.                 *)
(* SpecTrip   : add, remove and rollback on one schema, longest histories. *)
(* SpecValues : record values under type changes and rollbacks.            *)
(* SpecCache  : catalog lookups interleaved with mutations.                *)
(* SpecTtl    : catalog lookups while time passes.                         *)
(* SpecTypes  : one field of every supported type under type changes.      *)
(* SpecVersions: the calls that write SchemaVersion rows, manual snapshots *)
(*              included.                                                  *)
(* SpecCreate : threads stepping through SchemaManager.create_schema.       *)
(* SpecFork   : forks of schemas with records, and later changes.          *)
(* SpecLock   : threads stepping through SchemaManager._get_lock and the   *)
(*              critical section of add_field.                             *)
(* SpecSerial : add_field beside create_snapshot and rollback threads.     *)
(* SpecReadThrough: add_field beside get_fields lookups on one catalog.    *)
(* SpecLive   : create_schema, add_field and lookups with every lock       *)
(*              entered and left in steps, under fairness.                 *)
(***************************************************************************)
EXTENDS Integers, Sequences, FiniteSets, TLC

VARIABLES
    schemas,      \* schemas table: id -> [asset_type_id, version, parent_schema_id]
    fields,       \* schema_fields table: set of rows
    nextFieldId,  \* autoincrement of schema_fields.id
    records,      \* metadata_records table: id -> schema_id
    values,       \* field_values table: set of rows
    versions,     \* schema_versions table: sequence of rows, in insertion order
    changeLog,    \* change_logs table: sequence of rows, in insertion order
    cache,        \* MetadataCatalog.cache of every catalog instance
    cache_timestamps, \* MetadataCatalog.cache_timestamps of every instance
    now,          \* datetime.utcnow(), in seconds
    schema_locks, \* SchemaManager.schema_locks: schema id -> lock id
    lockOwner,    \* holder of every lock ("global" and the per-schema locks)
    nextLockId,   \* identity of the next RLock object constructed
    pc,           \* position of every thread
    tlocal        \* locals of every thread

vars == <<schemas, fields, nextFieldId, records, values, versions, changeLog,
          cache, cache_timestamps, now, schema_locks, lockOwner, nextLockId, pc, tlocal>>

dbVars == <<schemas, fields, nextFieldId, records, values, versions, changeLog>>
lockVars == <<schema_locks, lockOwner, nextLockId, pc, tlocal>>

(***************************************************************************)
(* Bounds of the model.  A scope is the set of limits one specification    *)
(* explores the tables under.                                              *)
(***************************************************************************)
MaxSchemas == 2
MaxFieldId == 3
MaxVersion == 3
MaxLog == 3
MaxRecords == 1
MaxCached == 2

\* every service call on up to MaxSchemas schemas
FullScope == [schemas |-> MaxSchemas, field_id |-> MaxFieldId, version |-> MaxVersion,
              log |-> MaxLog, records |-> MaxRecords, cached |-> 0, inputs |-> "all"]

\* structural changes of up to MaxSchemas schemas: deeper histories
MaxStructLog == 4
StructScope == [schemas |-> MaxSchemas, field_id |-> MaxFieldId, version |-> MaxVersion,
                log |-> MaxStructLog, records |-> 0, cached |-> 0, inputs |-> "few"]

\* round trips on one schema: the deepest histories
MaxTripVersion == 4
MaxTripLog == 6
TripScope == [schemas |-> 1, field_id |-> MaxFieldId, version |-> MaxTripVersion,
              log |-> MaxTripLog, records |-> 0, cached |-> 0, inputs |-> "few"]

\* stored values of one schema under type changes
MaxValueRecords == 2
MaxValueLog == 3
ValueScope == [schemas |-> 1, field_id |-> 1, version |-> MaxValueLog,
               log |-> MaxValueLog, records |-> MaxValueRecords, cached |-> 0,
               inputs |-> "all"]

\* the version history of up to MaxSchemas schemas, manual snapshots included
\* at most MaxVersionRows SchemaVersion rows over all schemas
MaxVersionLog == 3
MaxVersionRows == 4
VersionScope == [schemas |-> MaxSchemas, field_id |-> MaxFieldId, version |-> MaxVersion,
                 log |-> MaxVersionLog, records |-> 0, cached |-> 0, inputs |-> "few",
                 rows |-> MaxVersionRows]

\* one field of every type under type changes
MaxTypeLog == 3
TypeScope == [schemas |-> 1, field_id |-> 1, version |-> MaxTypeLog, log |-> MaxTypeLog,
              records |-> 0, cached |-> 0, inputs |-> "types"]

\* a schema with records, its forks and the changes made to either
MaxForkLog == 4
ForkScope == [schemas |-> MaxSchemas, field_id |-> MaxFieldId, version |-> MaxVersion,
              log |-> MaxForkLog, records |-> 1, cached |-> 0, inputs |-> "few"]

\* every service call on one schema with records
MaxAtomicLog == 3
AtomicScope == [schemas |-> 1, field_id |-> MaxFieldId, version |-> MaxVersion,
                log |-> MaxAtomicLog, records |-> MaxRecords, cached |-> 0,
                inputs |-> "backfill"]

\* catalog lookups of one schema over MaxNow seconds, in steps of TickSteps
MaxNow == 330
MaxTtlLog == 2
TickSteps == {30}
TtlScope == [schemas |-> 1, field_id |-> 2, version |-> MaxTtlLog, log |-> MaxTtlLog,
             records |-> 0, cached |-> MaxCached, inputs |-> "few"]

\* catalog lookups between mutations of one schema
MaxCacheLog == 3
CacheScope == [schemas |-> 1, field_id |-> 2, version |-> MaxCacheLog,
               log |-> MaxCacheLog, records |-> 0, cached |-> MaxCached,
               inputs |-> "few"]

(***************************************************************************)
(* Python values.  A value is [t |-> type tag, s |-> repr]; None is NULL.  *)
(***************************************************************************)
NULL == [t |-> "none", s |-> ""]
PyInt(x) == [t |-> "int", s |-> x]
PyFloat(x) == [t |-> "float", s |-> x]
PyStr(x) == [t |-> "str", s |-> x]
PyBool(x) == [t |-> "bool", s |-> x]
PyErr(x) == [t |-> "error", s |-> x]

PyDate(x) == [t |-> "date", s |-> x]

IsErr(v) == "t" \in DOMAIN v /\ v.t = "error"

\* texts dateutil parses; kept in ISO-8601 form, so isoformat() is the text
DateTexts == {"2024-01-01T00:00:00"}

IntLiterals == {"5", "7"}
FloatLiterals == {"5.0", "7.0"}
FloatRepr == [x \in IntLiterals |-> IF x = "5" THEN "5.0" ELSE "7.0"]
IntRepr == [x \in FloatLiterals |-> IF x = "5.0" THEN "5" ELSE "7"]

\* str(value)
PyStrOf(v) == PyStr(v.s)

\* int(value)
PyIntOf(v) ==
    CASE v.t = "int" -> v
      [] v.t = "bool" -> PyInt(IF v.s = "True" THEN "1" ELSE "0")
      [] v.t = "float" -> PyInt(IntRepr[v.s])
      [] v.t = "str" /\ v.s \in IntLiterals -> PyInt(v.s)
      [] v.t = "str" /\ v.s \notin IntLiterals -> PyErr("ValueError")
      [] OTHER -> PyErr("TypeError")

\* float(value)
PyFloatOf(v) ==
    CASE v.t = "float" -> v
      [] v.t = "int" -> PyFloat(FloatRepr[v.s])
      [] v.t = "bool" -> PyFloat(IF v.s = "True" THEN "1.0" ELSE "0.0")
      [] v.t = "str" /\ v.s \in IntLiterals -> PyFloat(FloatRepr[v.s])
      [] v.t = "str" /\ v.s \in FloatLiterals -> PyFloat(v.s)
      [] v.t = "str" /\ v.s \notin (IntLiterals \cup FloatLiterals) -> PyErr("ValueError")
      [] OTHER -> PyErr("TypeError")

\* bool(value)
PyBoolOf(v) ==
    CASE v.t = "bool" -> v
      [] v.t = "str" -> PyBool(IF v.s = "" THEN "False" ELSE "True")
      [] OTHER -> PyBool(IF v.s \in {"0", "0.0"} THEN "False" ELSE "True")

\* truthiness of an Optional[str]
Truthy(v) == v # NULL /\ v.s # ""

(***************************************************************************)
(* Field types and the value codec (FieldValue.get_value / set_value).     *)
(***************************************************************************)
SUPPORTED_TYPES ==
    {"string", "integer", "float", "boolean", "date", "json", "array", "object"}

TYPE_COMPATIBILITY ==
    [old \in SUPPORTED_TYPES |->
        CASE old = "string"  -> {"string", "json", "array", "object"}
          [] old = "integer" -> {"integer", "float", "string", "json", "array", "object"}
          [] old = "float"   -> {"float", "string", "json", "array", "object"}
          [] old = "boolean" -> {"boolean", "string", "json", "array", "object"}
          [] old = "date"    -> {"date", "string", "json", "array", "object"}
          [] old = "json"    -> {"json", "string", "array", "object"}
          [] old = "array"   -> {"array", "string", "json", "object"}
          [] old = "object"  -> {"object", "string", "json", "array"}]

Slots == {"value_text", "value_int", "value_float", "value_bool", "value_date", "value_json"}

\* the column get_value / set_value select for a field type
SlotOf(field_type) ==
    CASE field_type = "string"  -> "value_text"
      [] field_type = "integer" -> "value_int"
      [] field_type = "float"   -> "value_float"
      [] field_type = "boolean" -> "value_bool"
      [] field_type = "date"    -> "value_date"
      [] field_type \in {"json", "array", "object"} -> "value_json"
      [] OTHER -> "none"

\* a FieldValue row with every typed column NULL
NewFieldValue(record_id, schema_field_id) ==
    [record_id |-> record_id, schema_field_id |-> schema_field_id,
     value_text |-> NULL, value_int |-> NULL, value_float |-> NULL,
     value_bool |-> NULL, value_date |-> NULL, value_json |-> NULL]

ClearSlots(fv) == NewFieldValue(fv.record_id, fv.schema_field_id)

\* FieldValue.get_value with self.schema_field.field_type = field_type
get_value(fv, field_type) ==
    CASE field_type = "string"  -> fv.value_text
      [] field_type = "integer" -> fv.value_int
      [] field_type = "float"   -> fv.value_float
      [] field_type = "boolean" -> fv.value_bool
      [] field_type = "date"    -> IF fv.value_date # NULL THEN PyStr(fv.value_date.s) ELSE NULL
      [] field_type \in {"json", "array", "object"} -> fv.value_json
      [] OTHER -> NULL

\* the value set_value stores for a field type, or an error value
Coerce(field_type, value) ==
    CASE field_type = "string"  -> PyStrOf(value)
      [] field_type = "integer" -> PyIntOf(value)
      [] field_type = "float"   -> PyFloatOf(value)
      [] field_type = "boolean" -> PyBoolOf(value)
      [] field_type = "date"    -> IF value.t = "str"
                                   THEN (IF value.s \in DateTexts
                                         THEN PyDate(value.s)
                                         ELSE PyErr("ValueError"))
                                   ELSE value
      [] OTHER -> value

\* FieldValue.set_value: the new row, or an error value.  field_type is
\* "None" when the row's schema_field relationship is not loaded.
set_value(fv, field_type, value) ==
    IF field_type = "None" THEN PyErr("AttributeError")
    ELSE IF value = NULL THEN ClearSlots(fv)
    ELSE IF IsErr(Coerce(field_type, value)) THEN Coerce(field_type, value)
    ELSE IF SlotOf(field_type) = "none" THEN ClearSlots(fv)
    ELSE [ClearSlots(fv) EXCEPT ![SlotOf(field_type)] = Coerce(field_type, value)]

(***************************************************************************)
(* Rows and queries.                                                       *)
(***************************************************************************)
Max(S) == CHOOSE x \in S : \A y \in S : y <= x

\* dict.get(key) on a field definition
Get(d, key) == IF key \in DOMAIN d THEN d[key] ELSE NULL
GetType(d) == IF "type" \in DOMAIN d THEN d.type ELSE "string"
GetRequired(d) == IF "required" \in DOMAIN d THEN d.required ELSE FALSE

\* SchemaField.query.filter_by(schema_id=...)
FieldsOf(fs, schema_id) == {f \in fs : f.schema_id = schema_id}

\* SchemaField.query.filter_by(schema_id, field_name, is_deleted).first()
FindField(fs, schema_id, field_name, is_deleted) ==
    {f \in fs : f.schema_id = schema_id /\ f.field_name = field_name
                /\ f.is_deleted = is_deleted}

\* a schema_fields table without the unique constraint
uq_schema_field_dropped(fs) == TRUE

\* UniqueConstraint('schema_id', 'field_name', name='uq_schema_field')
uq_schema_field(fs) ==
    \A f, g \in fs :
        (f.schema_id = g.schema_id /\ f.field_name = g.field_name) => f.id = g.id

\* UniqueConstraint('schema_id', 'version_number', name='uq_schema_version')
uq_schema_version(vers) ==
    \A i, j \in DOMAIN vers :
        (vers[i].schema_id = vers[j].schema_id
         /\ vers[i].version_number = vers[j].version_number) => i = j

\* MetadataRecord.query.filter_by(schema_id=...)
RecordsOf(recs, schema_id) == {r \in DOMAIN recs : recs[r] = schema_id}

\* FieldValue.query.filter_by(schema_field_id=...)
ValuesOf(vals, schema_field_id) == {v \in vals : v.schema_field_id = schema_field_id}

\* SchemaVersion.query.filter_by(schema_id=...)
VersionsOf(vers, schema_id) ==
    {vers[i] : i \in {j \in DOMAIN vers : vers[j].schema_id = schema_id}}

\* ... .order_by(SchemaVersion.version_number.desc()).first()
LatestVersion(vers, schema_id) ==
    CHOOSE v \in VersionsOf(vers, schema_id) :
        \A w \in VersionsOf(vers, schema_id) : w.version_number <= v.version_number

\* SchemaVersion.query.filter_by(schema_id, version_number).first()
FindVersion(vers, schema_id, version_number) ==
    {v \in VersionsOf(vers, schema_id) : v.version_number = version_number}

\* SchemaManager._get_schema_snapshot: one dict per row of schema.fields,
\* soft-deleted rows included
_get_schema_snapshot(fs, schema_id) ==
    {[id |-> f.id, name |-> f.field_name, type |-> f.field_type,
      required |-> f.is_required, default |-> f.default_value,
      constraints |-> f.constraints, description |-> f.description,
      order |-> f.order_index, deleted |-> f.is_deleted] : f \in FieldsOf(fs, schema_id)}

\* SchemaVersionControl._build_snapshot
_build_snapshot(fs, schema_id) == _get_schema_snapshot(fs, schema_id)

\* a snapshot written over the schema's latest version row
_create_version_snapshot_in_place(vers, fs, schema_id) ==
    [i \in DOMAIN vers |->
        IF vers[i].schema_id = schema_id
           /\ \A j \in DOMAIN vers : vers[j].schema_id = schema_id
                                       => vers[j].version_number <= vers[i].version_number
        THEN [vers[i] EXCEPT !.schema_snapshot = _get_schema_snapshot(fs, schema_id)]
        ELSE vers[i]]

\* SchemaManager._create_version_snapshot: the version row appended
_create_version_snapshot(vers, fs, schema_id) ==
    Append(vers,
           [schema_id |-> schema_id,
            version_number |-> IF VersionsOf(vers, schema_id) # {}
                               THEN LatestVersion(vers, schema_id).version_number + 1
                               ELSE 1,
            schema_snapshot |-> _get_schema_snapshot(fs, schema_id)])

\* a ChangeLog row; field_name, flag (is_required / permanent / preserve_data),
\* from_version and to_version are its change_details
LogRow(schema_id, change_type, field_name, flag, from_version, to_version, schema_snapshot) ==
    [schema_id |-> schema_id, change_type |-> change_type,
     field_name |-> field_name, flag |-> flag, from_version |-> from_version,
     to_version |-> to_version, schema_snapshot |-> schema_snapshot]

(***************************************************************************)
(* SchemaVersionControl._calculate_diff                                    *)
(***************************************************************************)
SnapNames(snapshot) == {f.name : f \in snapshot}
SnapField(snapshot, name) == CHOOSE f \in snapshot : f.name = name

\* a diff that counts the soft-deleted fields of the second snapshot as removed
_calculate_diff_deleted_as_removed(snapshot1, snapshot2) ==
    [added_fields |-> SnapNames(snapshot2) \ SnapNames(snapshot1),
     removed_fields |-> SnapNames(snapshot1)
                            \ SnapNames({f \in snapshot2 : ~f.deleted}),
     modified_fields |->
        {name \in SnapNames(snapshot1) \cap SnapNames(snapshot2) :
            \/ SnapField(snapshot1, name).type # SnapField(snapshot2, name).type
            \/ SnapField(snapshot1, name).required # SnapField(snapshot2, name).required
            \/ SnapField(snapshot1, name).constraints # SnapField(snapshot2, name).constraints}]

_calculate_diff(snapshot1, snapshot2) ==
    [added_fields |-> SnapNames(snapshot2) \ SnapNames(snapshot1),
     removed_fields |-> SnapNames(snapshot1) \ SnapNames(snapshot2),
     modified_fields |->
        {name \in SnapNames(snapshot1) \cap SnapNames(snapshot2) :
            \/ SnapField(snapshot1, name).type # SnapField(snapshot2, name).type
            \/ SnapField(snapshot1, name).required # SnapField(snapshot2, name).required
            \/ SnapField(snapshot1, name).constraints # SnapField(snapshot2, name).constraints}]

(***************************************************************************)
(* ValidationEngine                                                        *)
(***************************************************************************)
\* names matching ^[a-zA-Z_][a-zA-Z0-9_]*$ among the names of the model
ValidIdentifiers == {"a", "b", "c"}
_is_valid_identifier(name) == name \in ValidIdentifiers

\* ValidationEngine._validate_constraints (min/max of numeric fields)
_validate_constraints(field_type, constraints) ==
    IF /\ field_type \in {"integer", "float"}
       /\ "min" \in DOMAIN constraints /\ "max" \in DOMAIN constraints
       /\ constraints.min > constraints.max
    THEN {"min > max"} ELSE {}

\* errors validate_fields reports for the definition at position idx
FieldErrors(defs, idx) ==
    LET field == defs[idx] IN
    (IF \E j \in 1..(idx - 1) : defs[j].name = field.name
     THEN {"Duplicate field name"} ELSE {})
    \cup (IF ~_is_valid_identifier(field.name) THEN {"Invalid name"} ELSE {})
    \cup (IF GetType(field) \notin SUPPORTED_TYPES THEN {"Unsupported type"} ELSE {})
    \cup (IF "constraints" \in DOMAIN field /\ field.constraints # NULL
          THEN _validate_constraints(GetType(field), field.constraints) ELSE {})
    \cup (IF GetRequired(field) /\ "default" \notin DOMAIN field
          THEN {"Required fields must have a default value"} ELSE {})

\* ValidationEngine.validate_fields: the set of error messages
validate_fields(defs) == UNION {FieldErrors(defs, idx) : idx \in DOMAIN defs}

LargeSchema == 100000

\* ValidationEngine.validate_add_field
validate_add_field(field_def, record_count) ==
    validate_fields(<<field_def>>)
    \cup (IF record_count > 0 /\ GetRequired(field_def)
             /\ ("default" \notin DOMAIN field_def \/ field_def.default = NULL)
          THEN {"Cannot add required field without default"} ELSE {})
    \cup (IF record_count > LargeSchema THEN {"WARNING"} ELSE {})

\* ValidationEngine._test_conversion: the converted value or an error value
_test_conversion(value, new_type) ==
    CASE new_type = "string"  -> PyStrOf(value)
      [] new_type = "integer" -> PyIntOf(value)
      [] new_type = "float"   -> PyFloatOf(value)
      [] new_type = "boolean" -> PyBoolOf(value)
      [] OTHER -> value

\* a validate_type_change that tests the stored values alone
validate_type_change_any_target(fs, vals, field_id, old_type, new_type) ==
    IF ~\E f \in fs : f.id = field_id THEN {"Field not found"}
    ELSE IF \E v \in ValuesOf(vals, field_id) :
                /\ get_value(v, old_type) # NULL
                /\ IsErr(_test_conversion(get_value(v, old_type), new_type))
         THEN {"incompatible values"}
         ELSE {}

\* a validate_type_change that consults neither the table nor the values
validate_type_change_unchecked(fs, vals, field_id, old_type, new_type) == {}

\* ValidationEngine.validate_type_change
validate_type_change(fs, vals, field_id, old_type, new_type) ==
    IF new_type \notin TYPE_COMPATIBILITY[old_type] THEN {"Cannot convert"}
    ELSE IF ~\E f \in fs : f.id = field_id THEN {"Field not found"}
    ELSE IF \E v \in ValuesOf(vals, field_id) :
                /\ get_value(v, old_type) # NULL
                /\ IsErr(_test_conversion(get_value(v, old_type), new_type))
         THEN {"incompatible values"}
         ELSE {}

(***************************************************************************)
(* Transactions.  A service call works on the session's copy of the        *)
(* tables and ends in db.session.commit() or db.session.rollback().        *)
(***************************************************************************)
Ok(db) == [ok |-> TRUE, err |-> "", db |-> db]
Fail(err, db) == [ok |-> FALSE, err |-> err, db |-> db]

\* an except branch that leaves the flushed rows in place
SessionRollbackSkipped(committed, dirty) == dirty

\* db.session.rollback(): the tables as last committed
SessionRollback(committed, dirty) == committed

\* db.session.commit(); fault = the database refuses the commit
Commit(committed, dirty, fault) ==
    IF fault \/ ~uq_schema_field(dirty.fields) \/ ~uq_schema_version(dirty.versions)
    THEN Fail("commit failed", SessionRollback(committed, dirty))
    ELSE Ok(dirty)

\* a SchemaField row
FieldRow(id, schema_id, field_name, field_type, is_required, default_value, constraints, description, order_index) ==
    [id |-> id, schema_id |-> schema_id, field_name |-> field_name,
     field_type |-> field_type, is_required |-> is_required,
     default_value |-> default_value, constraints |-> constraints,
     description |-> description, is_deleted |-> FALSE,
     order_index |-> order_index]

\* SchemaManager._add_default_values_to_existing_records: the rows built.
\* The new FieldValue is transient and its schema_field is never assigned,
\* so set_value finds no schema_field.
_add_default_values_to_existing_records(db, field, default_value) ==
    {set_value(NewFieldValue(r, field.id), "None", default_value) :
        r \in RecordsOf(db.records, field.schema_id)}

\* SchemaManager.add_field
add_field(db, schema_id, field_name, field_type, is_required, default_value, constraints, description, fault) ==
    LET field_def == [name |-> field_name, type |-> field_type,
                      required |-> is_required, default |-> default_value,
                      constraints |-> constraints]
        record_count == Cardinality(RecordsOf(db.records, schema_id))
        max_order == Max({f.order_index : f \in FieldsOf(db.fields, schema_id)} \cup {0})
        field == FieldRow(db.nextFieldId, schema_id, field_name, field_type,
                          is_required, default_value, constraints, description,
                          max_order + 1)
        flushed == [db EXCEPT !.fields = @ \cup {field}, !.nextFieldId = @ + 1]
        backfill == IF is_required /\ Truthy(default_value) /\ record_count > 0
                    THEN _add_default_values_to_existing_records(db, field, default_value)
                    ELSE {}
        filled == [flushed EXCEPT !.values = @ \cup backfill]
        logged == [filled EXCEPT
                      !.changeLog = Append(@,
                          LogRow(schema_id, "field_added", field_name, is_required, 0, 0,
                                    _get_schema_snapshot(filled.fields, schema_id))),
                      !.versions = _create_version_snapshot(@, filled.fields, schema_id)]
    IN  IF schema_id \notin DOMAIN db.schemas THEN Fail("Schema not found", db)
        ELSE IF FindField(db.fields, schema_id, field_name, FALSE) # {}
             THEN Fail("Field already exists", db)
        ELSE IF validate_add_field(field_def, record_count) # {}
             THEN Fail("Validation failed", db)
        ELSE IF ~uq_schema_field(flushed.fields)
             THEN Fail("IntegrityError", SessionRollback(db, db))
        ELSE IF \E fv \in backfill : IsErr(fv)
             THEN Fail("Failed to add field", SessionRollback(db, flushed))
        ELSE Commit(db, logged, fault)

\* a remove_field whose hard delete removes the row and leaves its values
remove_field_keeping_values(db, schema_id, field_name, permanent, fault) ==
    LET found == FindField(db.fields, schema_id, field_name, FALSE)
        field == CHOOSE f \in found : TRUE
        changed == IF permanent
                   THEN [db EXCEPT !.fields = @ \ {field}]
                   ELSE [db EXCEPT !.fields =
                            (@ \ {field}) \cup {[field EXCEPT !.is_deleted = TRUE]}]
        logged == [changed EXCEPT
                      !.changeLog = Append(@,
                          LogRow(schema_id, "field_removed", field_name, permanent, 0, 0,
                                    _get_schema_snapshot(changed.fields, schema_id))),
                      !.versions = _create_version_snapshot(@, changed.fields, schema_id)]
    IN  IF schema_id \notin DOMAIN db.schemas THEN Fail("Schema not found", db)
        ELSE IF found = {} THEN Fail("Field not found", db)
        ELSE Commit(db, logged, fault)

\* SchemaManager.remove_field
remove_field(db, schema_id, field_name, permanent, fault) ==
    LET found == FindField(db.fields, schema_id, field_name, FALSE)
        field == CHOOSE f \in found : TRUE
        changed == IF permanent
                   THEN [db EXCEPT !.values = @ \ ValuesOf(db.values, field.id),
                                   !.fields = @ \ {field}]
                   ELSE [db EXCEPT !.fields =
                            (@ \ {field}) \cup {[field EXCEPT !.is_deleted = TRUE]}]
        logged == [changed EXCEPT
                      !.changeLog = Append(@,
                          LogRow(schema_id, "field_removed", field_name, permanent, 0, 0,
                                    _get_schema_snapshot(changed.fields, schema_id))),
                      !.versions = _create_version_snapshot(@, changed.fields, schema_id)]
    IN  IF schema_id \notin DOMAIN db.schemas THEN Fail("Schema not found", db)
        ELSE IF found = {} THEN Fail("Field not found", db)
        ELSE Commit(db, logged, fault)

\* SchemaManager._migrate_field_type over the rows in query order.  st is
\* [field_type, values, err]: the in-memory field.field_type, the rows
\* written so far and whether a conversion raised.
RECURSIVE _migrate_field_type(_, _, _, _)
_migrate_field_type(st, rows, old_type, new_type) ==
    IF rows = <<>> \/ st.err THEN st
    ELSE LET value == Head(rows)
             old_value == get_value(value, st.field_type)
             stored == set_value(value, new_type, old_value)
         IN  IF old_value = NULL
             THEN _migrate_field_type(st, Tail(rows), old_type, new_type)
             ELSE IF IsErr(stored)
             THEN [st EXCEPT !.field_type = old_type, !.err = TRUE]
             ELSE _migrate_field_type(
                      [st EXCEPT !.field_type = new_type,
                                 !.values = (@ \ {value}) \cup {stored}],
                      Tail(rows), old_type, new_type)

\* the orders in which a query without ORDER BY may return a set of rows
RowOrders(S) ==
    {q \in [1..Cardinality(S) -> S] : \A i, j \in DOMAIN q : q[i] = q[j] => i = j}

AsBool(v) == v.s = "True"

\* SchemaManager.modify_field; outcome.changed tells whether anything changed
modify_field(db, schema_id, field_name, new_type, new_required, new_constraints, new_description, order, fault) ==
    LET found == FindField(db.fields, schema_id, field_name, FALSE)
        field == CHOOSE f \in found : TRUE
        old_type == field.field_type
        type_change == new_type # "None" /\ new_type # old_type
        validation_errors == validate_type_change(db.fields, db.values, field.id,
                                                  old_type, new_type)
        migrated == _migrate_field_type(
                        [field_type |-> old_type, values |-> db.values, err |-> FALSE],
                        order, old_type, new_type)
        f1 == IF type_change THEN [field EXCEPT !.field_type = new_type] ELSE field
        req_change == new_required # NULL /\ AsBool(new_required) # field.is_required
        f2 == IF req_change THEN [f1 EXCEPT !.is_required = AsBool(new_required)] ELSE f1
        f3 == IF new_constraints # NULL THEN [f2 EXCEPT !.constraints = new_constraints] ELSE f2
        f4 == IF new_description # NULL THEN [f3 EXCEPT !.description = new_description] ELSE f3
        changes == type_change \/ req_change \/ new_constraints # NULL
                   \/ new_description # NULL
        changed == [db EXCEPT !.fields = (@ \ {field}) \cup {f4},
                              !.values = IF type_change THEN migrated.values ELSE @]
        logged == [changed EXCEPT
                      !.changeLog = Append(@,
                          LogRow(schema_id, "field_modified", field_name, type_change, 0, 0,
                                    _get_schema_snapshot(changed.fields, schema_id))),
                      !.versions = _create_version_snapshot(@, changed.fields, schema_id)]
    IN  IF schema_id \notin DOMAIN db.schemas
        THEN [changed |-> FALSE] @@ Fail("Schema not found", db)
        ELSE IF found = {}
        THEN [changed |-> FALSE] @@ Fail("Field not found", db)
        ELSE IF type_change /\ validation_errors # {}
        THEN [changed |-> FALSE] @@ Fail("Type change validation failed", SessionRollback(db, db))
        ELSE IF type_change /\ migrated.err
        THEN [changed |-> FALSE] @@
             Fail("Cannot convert value",
                  SessionRollback(db, [db EXCEPT !.values = migrated.values]))
        ELSE IF ~changes
        THEN [changed |-> FALSE] @@ Ok(db)
        ELSE [changed |-> Commit(db, logged, fault).ok] @@ Commit(db, logged, fault)

\* the rows of a set in primary-key order
SortedById(S) ==
    CHOOSE q \in RowOrders(S) : \A i, j \in DOMAIN q : i < j => q[i].id < q[j].id

\* rollback, "added_fields" loop: restore or recreate the named fields
RECURSIVE RestoreFields(_, _, _)
RestoreFields(db, schema_id, defs) ==
    IF defs = <<>> THEN db
    ELSE LET field_def == Head(defs)
             existing == FindField(db.fields, schema_id, field_def.name, TRUE)
             row == CHOOSE f \in existing : TRUE
             new_field == FieldRow(db.nextFieldId, schema_id, field_def.name,
                                   field_def.type, field_def.required,
                                   field_def.default, field_def.constraints,
                                   field_def.description, field_def.order)
         IN  RestoreFields(
                 IF existing # {}
                 THEN [db EXCEPT !.fields = (@ \ {row}) \cup {[row EXCEPT !.is_deleted = FALSE]}]
                 ELSE [db EXCEPT !.fields = @ \cup {new_field}, !.nextFieldId = @ + 1],
                 schema_id, Tail(defs))

\* rollback, "removed_fields" loop: soft or hard delete the named active fields
DropFields(db, schema_id, names, preserve_data) ==
    LET hit == {f \in db.fields : f.schema_id = schema_id /\ ~f.is_deleted
                                  /\ f.field_name \in names}
    IN  IF preserve_data
        THEN [db EXCEPT !.fields = (@ \ hit) \cup {[f EXCEPT !.is_deleted = TRUE] : f \in hit}]
        ELSE [db EXCEPT !.fields = @ \ hit,
                        !.values = {v \in @ : v.schema_field_id \notin {f.id : f \in hit}}]

\* rollback, "modified_fields" loop: overwrite the named active fields
RevertFields(db, schema_id, names, snapshot) ==
    LET hit == {f \in db.fields : f.schema_id = schema_id /\ ~f.is_deleted
                                  /\ f.field_name \in names}
        Reverted(f) ==
            LET target_field == SnapField(snapshot, f.field_name)
            IN  [f EXCEPT !.field_type = target_field.type,
                          !.is_required = target_field.required,
                          !.default_value = target_field.default,
                          !.constraints = target_field.constraints,
                          !.description = target_field.description,
                          !.order_index = target_field.order]
    IN  [db EXCEPT !.fields = (@ \ hit) \cup {Reverted(f) : f \in hit}]

\* SchemaVersionControl.rollback; outcome.changed is FALSE for
\* 'Already at target version'
rollback(db, schema_id, target_version, preserve_data, fault) ==
    LET found == FindVersion(db.versions, schema_id, target_version)
        target == CHOOSE v \in found : TRUE
        current_version == LatestVersion(db.versions, schema_id)
        diff == _calculate_diff(current_version.schema_snapshot, target.schema_snapshot)
        restored == RestoreFields(db, schema_id,
                        SortedById({f \in target.schema_snapshot :
                                        f.name \in diff.added_fields}))
        dropped == DropFields(restored, schema_id, diff.removed_fields, preserve_data)
        reverted == RevertFields(dropped, schema_id, diff.modified_fields,
                                 target.schema_snapshot)
        logged == [reverted EXCEPT
                      !.changeLog = Append(@,
                          LogRow(schema_id, "rollback", "", preserve_data,
                                    current_version.version_number, target_version,
                                    target.schema_snapshot))]
    IN  IF schema_id \notin DOMAIN db.schemas
        THEN [changed |-> FALSE] @@ Fail("Schema not found", db)
        ELSE IF found = {}
        THEN [changed |-> FALSE] @@ Fail("Version not found", db)
        ELSE IF current_version.version_number = target_version
        THEN [changed |-> FALSE] @@ Ok(db)
        ELSE [changed |-> Commit(db, logged, fault).ok] @@ Commit(db, logged, fault)

\* SchemaVersionControl.create_snapshot: a version row and no ChangeLog row
create_snapshot(db, schema_id, fault) ==
    LET latest == LatestVersion(db.versions, schema_id)
        version_number == IF VersionsOf(db.versions, schema_id) # {}
                          THEN latest.version_number + 1
                          ELSE 1
        added == [db EXCEPT !.versions = Append(@,
                     [schema_id |-> schema_id, version_number |-> version_number,
                      schema_snapshot |-> _build_snapshot(db.fields, schema_id)])]
    IN  IF schema_id \notin DOMAIN db.schemas THEN Fail("Schema not found", db)
        ELSE Commit(db, added, fault)

\* the SchemaField rows create_schema adds for a list of definitions
NewFields(schema_id, first_id, defs) ==
    {FieldRow(first_id + idx - 1, schema_id, defs[idx].name, GetType(defs[idx]),
              GetRequired(defs[idx]), Get(defs[idx], "default"),
              Get(defs[idx], "constraints"), Get(defs[idx], "description"),
              idx - 1) : idx \in DOMAIN defs}

\* SchemaManager.create_schema
create_schema(db, asset_type_id, defs, parent_schema_id, fault) ==
    LET same_type == {s \in DOMAIN db.schemas : db.schemas[s].asset_type_id = asset_type_id}
        version == IF same_type # {}
                   THEN Max({db.schemas[s].version : s \in same_type}) + 1
                   ELSE 1
        id == Cardinality(DOMAIN db.schemas) + 1
        schema == [asset_type_id |-> asset_type_id, version |-> version,
                   parent_schema_id |-> parent_schema_id]
        added == [db EXCEPT
                     !.schemas = [s \in DOMAIN @ \cup {id} |->
                                     IF s = id THEN schema ELSE @[s]],
                     !.fields = @ \cup NewFields(id, db.nextFieldId, defs),
                     !.nextFieldId = @ + Len(defs)]
        logged == [added EXCEPT
                      !.changeLog = Append(@,
                          LogRow(id, "created", "", FALSE, 0, 0,
                                    _get_schema_snapshot(added.fields, id))),
                      !.versions = Append(@, [schema_id |-> id, version_number |-> 1,
                                              schema_snapshot |->
                                                  _get_schema_snapshot(added.fields, id)])]
    IN  IF validate_fields(defs) # {}
        THEN [id |-> 0] @@ Fail("Field validation failed", db)
        ELSE [id |-> id] @@ Commit(db, logged, fault)

\* the field definition fork_schema copies from a parent field
ForkDef(f) ==
    [name |-> f.field_name, type |-> f.field_type, required |-> f.is_required,
     default |-> f.default_value, constraints |-> f.constraints,
     description |-> f.description]

RECURSIVE SeqFilter(_, _)
SeqFilter(q, keep) ==
    IF q = <<>> THEN <<>>
    ELSE IF Head(q).name \in keep THEN <<Head(q)>> \o SeqFilter(Tail(q), keep)
    ELSE SeqFilter(Tail(q), keep)

\* a fork_schema that copies the soft-deleted fields of the parent as well
fork_schema_with_deleted(db, schema_id, add_fields, remove_fields, fault) ==
    LET parent_fields == SortedById(FieldsOf(db.fields, schema_id))
        copied == [i \in DOMAIN parent_fields |-> ForkDef(parent_fields[i])]
        extended == copied \o add_fields
        fields_data == SeqFilter(extended,
                           {extended[i].name : i \in DOMAIN extended} \ remove_fields)
    IN  IF schema_id \notin DOMAIN db.schemas
        THEN [id |-> 0] @@ Fail("Parent schema not found", db)
        ELSE create_schema(db, db.schemas[schema_id].asset_type_id, fields_data,
                           schema_id, fault)

\* SchemaManager.fork_schema
fork_schema(db, schema_id, add_fields, remove_fields, fault) ==
    LET parent_fields == SortedById({f \in FieldsOf(db.fields, schema_id) : ~f.is_deleted})
        copied == [i \in DOMAIN parent_fields |-> ForkDef(parent_fields[i])]
        extended == copied \o add_fields
        fields_data == SeqFilter(extended,
                           {extended[i].name : i \in DOMAIN extended} \ remove_fields)
    IN  IF schema_id \notin DOMAIN db.schemas
        THEN [id |-> 0] @@ Fail("Parent schema not found", db)
        ELSE create_schema(db, db.schemas[schema_id].asset_type_id, fields_data,
                           schema_id, fault)

(***************************************************************************)
(* MetadataCatalog.  Every instance has its own cache dict.                *)
(***************************************************************************)
\* SchemaManager.catalog, SchemaVersionControl.catalog and the module-level
\* catalog of routes/schemas_dynamic.py
Catalogs == {"schema_manager", "version_control", "routes"}

\* the instance the read endpoints look schemas up through
ReadCatalogs == {"routes"}

\* cache keys "fields:<id>:deleted:<bool>" and "stats:<id>"
FieldsKey(schema_id, include_deleted) ==
    [kind |-> "fields", id |-> schema_id, flag |-> include_deleted]
StatsKey(schema_id) == [kind |-> "stats", id |-> schema_id, flag |-> FALSE]

\* MetadataCatalog._build_field_dict
_build_field_dict(f) ==
    [id |-> f.id, name |-> f.field_name, type |-> f.field_type,
     required |-> f.is_required, default |-> f.default_value,
     constraints |-> f.constraints, description |-> f.description,
     order |-> f.order_index, deleted |-> f.is_deleted]

\* MetadataCatalog.get_fields, the database query
LoadFields(fs, schema_id, include_deleted) ==
    {_build_field_dict(f) : f \in {g \in FieldsOf(fs, schema_id) :
                                      include_deleted \/ ~g.is_deleted}}

\* MetadataCatalog.get_schema_statistics, the database queries
LoadStats(fs, recs, schema_id) ==
    [record_count |-> Cardinality(RecordsOf(recs, schema_id)),
     field_count |-> Cardinality({f \in FieldsOf(fs, schema_id) : ~f.is_deleted})]

Load(fs, recs, key) ==
    IF key.kind = "fields" THEN LoadFields(fs, key.id, key.flag)
    ELSE LoadStats(fs, recs, key.id)

\* the test of invalidate_schema on a key: f":{schema_id}" in key or
\* key.startswith(f"schema:{schema_id}"), for one-digit ids
KeyMatches(key, schema_id) == key.id = schema_id

\* MetadataCatalog.invalidate_schema on one instance's cache dict
invalidate_schema(c, schema_id) ==
    [k \in {x \in DOMAIN c : ~KeyMatches(x, schema_id)} |-> c[k]]

\* MetadataCatalog._put_in_cache
_put_in_cache(c, key, value) ==
    [k \in DOMAIN c \cup {key} |-> IF k = key THEN value ELSE c[k]]

\* MetadataCatalog.__init__: cache_ttl, and the ttl get_schema_statistics
\* passes to _put_in_cache, which stores neither
cache_ttl == 300
StatsTtl == 60

\* MetadataCatalog._get_from_cache: the entry is there and age > self.cache_ttl
Expired(c, key) ==
    /\ key \in DOMAIN cache[c]
    /\ key \in DOMAIN cache_timestamps[c]
    /\ now - cache_timestamps[c][key] > cache_ttl

\* MetadataCatalog._get_from_cache returns the entry
Hit(c, key) == key \in DOMAIN cache[c] /\ ~Expired(c, key)

\* what a lookup through catalog instance c returns for key
Lookup(c, key) ==
    IF Hit(c, key) THEN cache[c][key] ELSE Load(fields, records, key)

EmptyCache == [k \in {} |-> 0]

(***************************************************************************)
(* State, and the sequential specifications.                               *)
(***************************************************************************)
Threads == {1, 2}

DB == [schemas |-> schemas, fields |-> fields, nextFieldId |-> nextFieldId,
       records |-> records, values |-> values, versions |-> versions,
       changeLog |-> changeLog]

ActiveNames(fs, schema_id) ==
    {f.field_name : f \in {g \in FieldsOf(fs, schema_id) : ~g.is_deleted}}

WithinBounds(B, db) ==
    /\ Cardinality(DOMAIN db.schemas) <= B.schemas
    /\ db.nextFieldId <= B.field_id + 1
    /\ Len(db.changeLog) <= B.log
    /\ \A i \in DOMAIN db.versions : db.versions[i].version_number <= B.version
    /\ "rows" \in DOMAIN B => Len(db.versions) <= B.rows

\* the tables after a call with outcome o
Store(B, o) ==
    /\ WithinBounds(B, o.db)
    /\ schemas' = o.db.schemas
    /\ fields' = o.db.fields
    /\ nextFieldId' = o.db.nextFieldId
    /\ records' = o.db.records
    /\ values' = o.db.values
    /\ versions' = o.db.versions
    /\ changeLog' = o.db.changeLog

\* self.catalog.invalidate_schema(schema_id) of the service that ran the call
Invalidate(catalog, schema_id, done) ==
    /\ cache' = IF done
                THEN [cache EXCEPT ![catalog] = invalidate_schema(@, schema_id)]
                ELSE cache
    /\ cache_timestamps' = IF done
                           THEN [cache_timestamps EXCEPT
                                    ![catalog] = invalidate_schema(@, schema_id)]
                           ELSE cache_timestamps
    /\ UNCHANGED now

\* the locals of a thread that is in no call
IdleLocal == [schema_id |-> 0, field_name |-> "", first |-> FALSE,
              lock |-> 0, max_order |-> 0, version_number |-> 0, asset_type_id |-> 0,
              target_version |-> 0, snapshot |-> {}, fields |-> {}]

Init ==
    /\ schemas = [s \in {} |-> 0]
    /\ fields = {}
    /\ nextFieldId = 1
    /\ records = [r \in {} |-> 0]
    /\ values = {}
    /\ versions = <<>>
    /\ changeLog = <<>>
    /\ cache = [c \in Catalogs |-> EmptyCache]
    /\ cache_timestamps = [c \in Catalogs |-> EmptyCache]
    /\ now = 0
    /\ schema_locks = [s \in {} |-> 0]
    /\ lockOwner = [l \in {0} |-> 0]
    /\ nextLockId = 1
    /\ pc = [t \in Threads |-> "idle"]
    /\ tlocal = [t \in Threads |-> IdleLocal]

Names == {"a", "b"}
SchemaIds == 1..MaxSchemas
AssetTypeIds == {1}

DefA == [name |-> "a", type |-> "integer"]
DefB == [name |-> "b", type |-> "string", required |-> TRUE, default |-> PyStr("5")]
\* the field lists of create_schema calls; <<DefA, DefA>> is invalid
CreateInputs(B) ==
    IF B.inputs = "all" THEN {<<DefA>>, <<DefA, DefB>>, <<DefA, DefA>>}
    ELSE IF B.inputs = "types" THEN {<<[name |-> "a", type |-> t]>> : t \in SUPPORTED_TYPES}
    ELSE {<<DefA>>, <<DefA, DefA>>}
AddTypes == {"integer"}
\* <<is_required, default_value>> of an add_field call
AddOptions(B) ==
    IF B.inputs \in {"all", "backfill"} THEN {<<FALSE, NULL>>, <<TRUE, PyStr("5")>>}
    ELSE {<<FALSE, NULL>>}
\* new_type of a modify_field call
NewTypes(B) ==
    IF B.inputs = "all" THEN {"None", "integer", "float", "json"}
    ELSE IF B.inputs = "types" THEN {"None"} \cup SUPPORTED_TYPES
    ELSE {"None", "float"}
\* <<new_required, new_constraints>> of a modify_field call
Patches(B) ==
    IF B.inputs = "all" THEN {<<NULL, NULL>>, <<PyBool("True"), [min |-> 1, max |-> 9]>>}
    ELSE {<<NULL, NULL>>}
\* <<add_fields, remove_fields>> of a fork_schema call
ForkInputs(B) ==
    IF B.inputs = "all"
    THEN {<<<<>>, {}>>, <<<<DefB>>, {}>>, <<<<>>, {"a"}>>, <<<<DefB>>, {"a"}>>}
    ELSE {<<<<>>, {}>>, <<<<DefA>>, {}>>}
RawValues == {PyInt("5")}

\* the rows of the active field (schema_id, field_name), as a query returns them
FieldValueRows(schema_id, field_name) ==
    {v \in values : \E f \in FindField(fields, schema_id, field_name, FALSE) :
                        v.schema_field_id = f.id}

CreateSchema(B) ==
    \E asset_type_id \in AssetTypeIds, defs \in CreateInputs(B), fault \in BOOLEAN :
        LET o == create_schema(DB, asset_type_id, defs, 0, fault) IN
        /\ Store(B, o)
        /\ Invalidate("schema_manager", o.id, o.ok)
        /\ UNCHANGED lockVars

ForkSchema(B) ==
    \E schema_id \in SchemaIds, mods \in ForkInputs(B), fault \in BOOLEAN :
        LET o == fork_schema(DB, schema_id, mods[1], mods[2], fault) IN
        /\ Store(B, o)
        /\ Invalidate("schema_manager", o.id, o.ok)
        /\ UNCHANGED lockVars

AddField(B) ==
    \E schema_id \in SchemaIds, field_name \in Names, field_type \in AddTypes,
       opt \in AddOptions(B), fault \in BOOLEAN :
        LET o == add_field(DB, schema_id, field_name, field_type, opt[1],
                           opt[2], NULL, NULL, fault) IN
        /\ Store(B, o)
        /\ Invalidate("schema_manager", schema_id, o.ok)
        /\ UNCHANGED lockVars

RemoveField(B) ==
    \E schema_id \in SchemaIds, field_name \in Names, permanent \in BOOLEAN,
       fault \in BOOLEAN :
        LET o == remove_field(DB, schema_id, field_name, permanent, fault) IN
        /\ Store(B, o)
        /\ Invalidate("schema_manager", schema_id, o.ok)
        /\ UNCHANGED lockVars

ModifyField(B) ==
    \E schema_id \in SchemaIds, field_name \in Names, new_type \in NewTypes(B),
       patch \in Patches(B), fault \in BOOLEAN :
        \E order \in RowOrders(FieldValueRows(schema_id, field_name)) :
            LET o == modify_field(DB, schema_id, field_name, new_type, patch[1],
                                  patch[2], NULL, order, fault) IN
            /\ Store(B, o)
            /\ Invalidate("schema_manager", schema_id, o.changed)
            /\ UNCHANGED lockVars

Rollback(B) ==
    \E schema_id \in SchemaIds, target_version \in 1..B.version,
       preserve_data \in BOOLEAN, fault \in BOOLEAN :
        LET o == rollback(DB, schema_id, target_version, preserve_data, fault) IN
        /\ Store(B, o)
        /\ Invalidate("version_control", schema_id, o.changed)
        /\ UNCHANGED lockVars

CreateSnapshot(B) ==
    \E schema_id \in SchemaIds, fault \in BOOLEAN :
        LET o == create_snapshot(DB, schema_id, fault) IN
        /\ Store(B, o)
        /\ UNCHANGED <<cache, cache_timestamps, now>>
        /\ UNCHANGED lockVars

\* routes/metadata.py create_metadata without values; validate_record_values
\* refuses the record when an active field of the schema is required
CreateRecord(B) ==
    \E schema_id \in DOMAIN schemas :
        /\ Cardinality(DOMAIN records) < B.records
        /\ \A f \in FieldsOf(fields, schema_id) : f.is_deleted \/ ~f.is_required
        /\ records' = [r \in DOMAIN records \cup {Cardinality(DOMAIN records) + 1} |->
                          IF r \in DOMAIN records THEN records[r] ELSE schema_id]
        /\ UNCHANGED <<schemas, fields, nextFieldId, values, versions, changeLog, cache, cache_timestamps, now>>
        /\ UNCHANGED lockVars

\* routes/metadata.py update_metadata with values = {field_name: raw}
SetRecordValue ==
    \E r \in DOMAIN records, field_name \in Names, raw \in RawValues :
        \E f \in FindField(fields, records[r], field_name, FALSE) :
            LET old == {v \in values : v.record_id = r /\ v.schema_field_id = f.id}
                fv == IF old # {} THEN CHOOSE v \in old : TRUE
                      ELSE NewFieldValue(r, f.id)
                stored == set_value(fv, f.field_type, raw)
            IN  /\ ~IsErr(stored)
                /\ values' = (values \ old) \cup {stored}
                /\ UNCHANGED <<schemas, fields, nextFieldId, records, versions,
                               changeLog, cache, cache_timestamps, now>>
                /\ UNCHANGED lockVars

\* MetadataCatalog.get_fields / get_schema_statistics through one instance:
\* a hit returns the entry; a miss, or an entry found expired and deleted,
\* loads from the database and caches with the time of the load
CatalogLookup(B) ==
    \E c \in ReadCatalogs, key \in UNION {{FieldsKey(schema_id, FALSE),
                                        FieldsKey(schema_id, TRUE),
                                        StatsKey(schema_id)} :
                                           schema_id \in DOMAIN schemas} :
        /\ ~Hit(c, key)
        /\ Cardinality(UNION {{<<d, k>> : k \in DOMAIN cache[d]} : d \in Catalogs}
                           \ {<<c, key>>})
               < B.cached
        /\ cache' = [cache EXCEPT ![c] = _put_in_cache(@, key, Load(fields, records, key))]
        /\ cache_timestamps' = [cache_timestamps EXCEPT ![c] = _put_in_cache(@, key, now)]
        /\ UNCHANGED now
        /\ UNCHANGED dbVars
        /\ UNCHANGED lockVars

\* time passes
Tick ==
    \E d \in TickSteps :
        /\ now + d <= MaxNow
        /\ now' = now + d
        /\ UNCHANGED <<cache, cache_timestamps>>
        /\ UNCHANGED dbVars
        /\ UNCHANGED lockVars

\* every service call, on up to MaxSchemas schemas
Next ==
    \/ CreateSchema(FullScope)
    \/ ForkSchema(FullScope)
    \/ AddField(FullScope)
    \/ RemoveField(FullScope)
    \/ ModifyField(FullScope)
    \/ Rollback(FullScope)
    \/ CreateRecord(FullScope)
    \/ SetRecordValue

Spec == Init /\ [][Next]_vars

\* structural changes of up to MaxSchemas schemas
NextStruct ==
    \/ CreateSchema(StructScope)
    \/ ForkSchema(StructScope)
    \/ AddField(StructScope)
    \/ RemoveField(StructScope)
    \/ ModifyField(StructScope)
    \/ Rollback(StructScope)

SpecStruct == Init /\ [][NextStruct]_vars

\* the calls that write SchemaVersion rows, manual snapshots included
NextVersions ==
    \/ CreateSchema(VersionScope)
    \/ ForkSchema(VersionScope)
    \/ AddField(VersionScope)
    \/ RemoveField(VersionScope)
    \/ ModifyField(VersionScope)
    \/ Rollback(VersionScope)
    \/ CreateSnapshot(VersionScope)

SpecVersions == Init /\ [][NextVersions]_vars

\* type changes of one field, created with any of the supported types
NextTypes ==
    \/ CreateSchema(TypeScope)
    \/ ModifyField(TypeScope)

SpecTypes == Init /\ [][NextTypes]_vars

\* forks of schemas that have records, and later changes of source and fork
NextFork ==
    \/ CreateSchema(ForkScope)
    \/ ForkSchema(ForkScope)
    \/ AddField(ForkScope)
    \/ RemoveField(ForkScope)
    \/ CreateRecord(ForkScope)
    \/ SetRecordValue

SpecFork == Init /\ [][NextFork]_vars

\* every service call on one schema
NextAtomic ==
    \/ CreateSchema(AtomicScope)
    \/ AddField(AtomicScope)
    \/ RemoveField(AtomicScope)
    \/ ModifyField(AtomicScope)
    \/ Rollback(AtomicScope)
    \/ CreateRecord(AtomicScope)
    \/ SetRecordValue

SpecAtomic == Init /\ [][NextAtomic]_vars

\* structural changes and rollbacks of one schema
NextTrip ==
    \/ CreateSchema(TripScope)
    \/ AddField(TripScope)
    \/ RemoveField(TripScope)
    \/ Rollback(TripScope)

SpecTrip == Init /\ [][NextTrip]_vars

\* record values of one schema under type changes and rollbacks
NextValues ==
    \/ CreateSchema(ValueScope)
    \/ CreateRecord(ValueScope)
    \/ SetRecordValue
    \/ ModifyField(ValueScope)
    \/ Rollback(ValueScope)

SpecValues == Init /\ [][NextValues]_vars

\* catalog lookups of one schema while time passes
NextTtl ==
    \/ CreateSchema(TtlScope)
    \/ AddField(TtlScope)
    \/ CatalogLookup(TtlScope)
    \/ Tick

SpecTtl == Init /\ [][NextTtl]_vars

\* catalog lookups interleaved with mutations of one schema
NextCache ==
    \/ CreateSchema(CacheScope)
    \/ AddField(CacheScope)
    \/ RemoveField(CacheScope)
    \/ ModifyField(CacheScope)
    \/ Rollback(CacheScope)
    \/ CatalogLookup(CacheScope)

SpecCache == Init /\ [][NextCache]_vars

(***************************************************************************)
(* SpecLock: request threads inside SchemaManager.add_field; remove_field  *)
(* and modify_field enter their bodies through the same two statements,    *)
(* schema_lock = self._get_lock(schema_id) and with schema_lock.  Lock 0   *)
(* is SchemaManager.lock; the per-schema RLocks get the identities 1, 2,   *)
(* ... in the order they are constructed.  A thread's session reads        *)
(* committed rows and writes them at commit.                               *)
(***************************************************************************)
EmptyDB == [schemas |-> [s \in {} |-> 0], fields |-> {}, nextFieldId |-> 1,
            records |-> [r \in {} |-> 0], values |-> {}, versions |-> <<>>,
            changeLog |-> <<>>]

\* two schemas created by create_schema, each with the field "a"
LockDB ==
    create_schema(create_schema(EmptyDB, 1, <<DefA>>, 0, FALSE).db,
                  1, <<DefA>>, 0, FALSE).db

InitLock ==
    /\ schemas = LockDB.schemas
    /\ fields = LockDB.fields
    /\ nextFieldId = LockDB.nextFieldId
    /\ records = LockDB.records
    /\ values = LockDB.values
    /\ versions = LockDB.versions
    /\ changeLog = LockDB.changeLog
    /\ cache = [c \in Catalogs |-> EmptyCache]
    /\ cache_timestamps = [c \in Catalogs |-> EmptyCache]
    /\ now = 0
    /\ schema_locks = [s \in {} |-> 0]
    /\ lockOwner = [l \in {0} |-> 0]
    /\ nextLockId = 1
    /\ pc = [t \in Threads |-> "idle"]
    /\ tlocal = [t \in Threads |-> IdleLocal]

\* field names of the add_field calls of the threads
LockNames == {"b", "c"}

Goto(t, label) == pc' = [pc EXCEPT ![t] = label]

\* a request thread enters add_field
Call(t) ==
    \E schema_id \in DOMAIN schemas, field_name \in LockNames :
        /\ pc[t] = "idle"
        /\ tlocal' = [tlocal EXCEPT ![t] = [IdleLocal EXCEPT
                                               !.schema_id = schema_id,
                                               !.field_name = field_name]]
        /\ Goto(t, "check1")
        /\ UNCHANGED <<schema_locks, lockOwner, nextLockId, cache, cache_timestamps, now>>
        /\ UNCHANGED dbVars

\* _get_lock: if schema_id not in self.schema_locks (outside the lock)
Check1(t) ==
    /\ pc[t] = "check1"
    /\ IF tlocal[t].schema_id \in DOMAIN schema_locks
       THEN Goto(t, "fetch") /\ UNCHANGED tlocal
       ELSE Goto(t, "acquire_global")
            /\ tlocal' = [tlocal EXCEPT ![t].first = TRUE]
    /\ UNCHANGED <<schema_locks, lockOwner, nextLockId, cache, cache_timestamps, now>>
    /\ UNCHANGED dbVars

\* _get_lock: with self.lock
AcquireGlobal(t) ==
    /\ pc[t] = "acquire_global"
    /\ lockOwner[0] = 0
    /\ lockOwner' = [lockOwner EXCEPT ![0] = t]
    /\ Goto(t, "check2")
    /\ UNCHANGED <<schema_locks, nextLockId, tlocal, cache, cache_timestamps, now>>
    /\ UNCHANGED dbVars

\* one RLock object registered for every schema
RegisterShared(schema_id) ==
    /\ schema_locks' = [s \in DOMAIN schema_locks \cup {schema_id} |->
                           IF s = schema_id THEN 1 ELSE schema_locks[s]]
    /\ nextLockId' = nextLockId + 1

\* self.schema_locks[schema_id] = threading.RLock()
Register(schema_id) ==
    /\ schema_locks' = [s \in DOMAIN schema_locks \cup {schema_id} |->
                           IF s = schema_id THEN nextLockId ELSE schema_locks[s]]
    /\ nextLockId' = nextLockId + 1

\* _get_lock: the second test, under self.lock, and the construction
Check2(t) ==
    /\ pc[t] = "check2"
    /\ IF tlocal[t].schema_id \in DOMAIN schema_locks
       THEN UNCHANGED <<schema_locks, nextLockId, lockOwner>>
       ELSE /\ Register(tlocal[t].schema_id)
            /\ lockOwner' = [l \in DOMAIN lockOwner \cup {nextLockId} |->
                                IF l = nextLockId THEN 0 ELSE lockOwner[l]]
    /\ Goto(t, "release_global")
    /\ UNCHANGED <<tlocal, cache, cache_timestamps, now>>
    /\ UNCHANGED dbVars

\* _get_lock: leaving the with self.lock block
ReleaseGlobal(t) ==
    /\ pc[t] = "release_global"
    /\ lockOwner' = [lockOwner EXCEPT ![0] = 0]
    /\ Goto(t, "fetch")
    /\ UNCHANGED <<schema_locks, nextLockId, tlocal, cache, cache_timestamps, now>>
    /\ UNCHANGED dbVars

\* _get_lock: return self.schema_locks[schema_id]
Fetch(t) ==
    /\ pc[t] = "fetch"
    /\ tlocal' = [tlocal EXCEPT ![t].lock = schema_locks[tlocal[t].schema_id]]
    /\ Goto(t, "acquire")
    /\ UNCHANGED <<schema_locks, lockOwner, nextLockId, cache, cache_timestamps, now>>
    /\ UNCHANGED dbVars

\* check-then-create without self.lock and without the second test
SingleCheckedCreate(t) ==
    /\ pc[t] = "acquire_global"
    /\ Register(tlocal[t].schema_id)
    /\ lockOwner' = [l \in DOMAIN lockOwner \cup {nextLockId} |->
                        IF l = nextLockId THEN 0 ELSE lockOwner[l]]
    /\ Goto(t, "fetch")
    /\ UNCHANGED <<tlocal, cache, cache_timestamps, now>>
    /\ UNCHANGED dbVars

_get_lock_single_checked(t) ==
    Check1(t) \/ SingleCheckedCreate(t) \/ Fetch(t)

\* SchemaManager._get_lock, one step of thread t
_get_lock(t) ==
    Check1(t) \/ AcquireGlobal(t) \/ Check2(t) \/ ReleaseGlobal(t) \/ Fetch(t)

\* with schema_lock: entering
AcquireSchemaLock(t) ==
    /\ pc[t] = "acquire"
    /\ lockOwner[tlocal[t].lock] = 0
    /\ lockOwner' = [lockOwner EXCEPT ![tlocal[t].lock] = t]
    /\ Goto(t, "body_check")
    /\ UNCHANGED <<schema_locks, nextLockId, tlocal, cache, cache_timestamps, now>>
    /\ UNCHANGED dbVars

\* the body up to the max(order_index) query: the existing-field test raises
\* when the name is active
BodyCheck(t) ==
    LET l == tlocal[t]
        found == FindField(fields, l.schema_id, l.field_name, FALSE)
    IN  /\ pc[t] = "body_check"
        /\ IF found # {}
           THEN Goto(t, "release") /\ UNCHANGED tlocal
           ELSE /\ Goto(t, "body_version")
                /\ tlocal' = [tlocal EXCEPT ![t].max_order =
                       Max({f.order_index : f \in FieldsOf(fields, l.schema_id)} \cup {0})]
        /\ UNCHANGED <<schema_locks, lockOwner, nextLockId, cache, cache_timestamps, now>>
        /\ UNCHANGED dbVars

\* _create_version_snapshot: the latest version_number query
BodyVersion(t) ==
    /\ pc[t] = "body_version"
    /\ tlocal' = [tlocal EXCEPT ![t].version_number =
                     LatestVersion(versions, tlocal[t].schema_id).version_number]
    /\ Goto(t, "body_commit")
    /\ UNCHANGED <<schema_locks, lockOwner, nextLockId, cache, cache_timestamps, now>>
    /\ UNCHANGED dbVars

\* db.session.commit() of the body, with the rows the thread built from
\* what it read; a refused commit is rolled back
BodyCommit(t) ==
    LET l == tlocal[t]
        field == FieldRow(nextFieldId, l.schema_id, l.field_name, "integer", FALSE,
                          NULL, NULL, NULL, l.max_order + 1)
        new_fields == fields \cup {field}
        dirty == [DB EXCEPT
                     !.fields = new_fields,
                     !.nextFieldId = @ + 1,
                     !.changeLog = Append(@,
                         LogRow(l.schema_id, "field_added", l.field_name, FALSE, 0, 0,
                                _get_schema_snapshot(new_fields, l.schema_id))),
                     !.versions = Append(@,
                         [schema_id |-> l.schema_id,
                          version_number |-> l.version_number + 1,
                          schema_snapshot |-> _get_schema_snapshot(new_fields, l.schema_id)])]
        o == Commit(DB, dirty, FALSE)
    IN  /\ pc[t] = "body_commit"
        /\ schemas' = o.db.schemas
        /\ fields' = o.db.fields
        /\ nextFieldId' = o.db.nextFieldId
        /\ records' = o.db.records
        /\ values' = o.db.values
        /\ versions' = o.db.versions
        /\ changeLog' = o.db.changeLog
        /\ Invalidate("schema_manager", l.schema_id, o.ok)
        /\ Goto(t, "release")
        /\ UNCHANGED <<schema_locks, lockOwner, nextLockId, tlocal>>

\* with schema_lock: leaving, by return or by exception
ReleaseSchemaLock(t) ==
    /\ pc[t] = "release"
    /\ lockOwner' = [lockOwner EXCEPT ![tlocal[t].lock] = 0]
    /\ Goto(t, "idle")
    /\ tlocal' = [tlocal EXCEPT ![t] = IdleLocal]
    /\ UNCHANGED <<schema_locks, nextLockId, cache, cache_timestamps, now>>
    /\ UNCHANGED dbVars

\* thread t is inside the with schema_lock block
InBody(t) == pc[t] \in {"body_check", "body_version", "body_commit", "release"}

NextLock ==
    \E t \in Threads :
        \/ Call(t)
        \/ _get_lock(t)
        \/ AcquireSchemaLock(t)
        \/ BodyCheck(t)
        \/ BodyVersion(t)
        \/ BodyCommit(t)
        \/ ReleaseSchemaLock(t)

SpecLock == InitLock /\ [][NextLock]_vars

(***************************************************************************)
(* SpecCreate: request threads inside SchemaManager.create_schema.  The    *)
(* schema endpoints (create, fork) call the module-level schema_manager of *)
(* routes/schemas_dynamic.py, whose lock is lock 0;                        *)
(* create_schema_from_metadata constructs a SchemaManager of its own for   *)
(* every call, and with it a new lock.                                     *)
(***************************************************************************)
MaxCreated == 3

Callers == {"schemas_dynamic", "schema_matcher"}

\* a request thread enters create_schema through one of the callers
CallCreate(t) ==
    \E caller \in Callers, asset_type_id \in AssetTypeIds :
        /\ pc[t] = "idle"
        /\ Cardinality(DOMAIN schemas)
               + Cardinality({u \in Threads : pc[u] # "idle"}) < MaxCreated
        /\ IF caller = "schema_matcher"
           THEN /\ tlocal' = [tlocal EXCEPT ![t] = [IdleLocal EXCEPT
                                  !.asset_type_id = asset_type_id, !.lock = nextLockId]]
                /\ lockOwner' = [l \in DOMAIN lockOwner \cup {nextLockId} |->
                                    IF l = nextLockId THEN 0 ELSE lockOwner[l]]
                /\ nextLockId' = nextLockId + 1
           ELSE /\ tlocal' = [tlocal EXCEPT ![t] = [IdleLocal EXCEPT
                                  !.asset_type_id = asset_type_id, !.lock = 0]]
                /\ UNCHANGED <<lockOwner, nextLockId>>
        /\ Goto(t, "create_acquire")
        /\ UNCHANGED <<schema_locks, cache, cache_timestamps, now>>
        /\ UNCHANGED dbVars

\* create_schema: with self.lock, entering
CreateAcquire(t) ==
    /\ pc[t] = "create_acquire"
    /\ lockOwner[tlocal[t].lock] = 0
    /\ lockOwner' = [lockOwner EXCEPT ![tlocal[t].lock] = t]
    /\ Goto(t, "create_read")
    /\ UNCHANGED <<schema_locks, nextLockId, tlocal, cache, cache_timestamps, now>>
    /\ UNCHANGED dbVars

\* create_schema: the latest-version query and version = latest + 1, else 1
CreateRead(t) ==
    LET same_type == {s \in DOMAIN schemas :
                         schemas[s].asset_type_id = tlocal[t].asset_type_id}
    IN  /\ pc[t] = "create_read"
        /\ tlocal' = [tlocal EXCEPT ![t].version_number =
                         IF same_type # {}
                         THEN Max({schemas[s].version : s \in same_type}) + 1
                         ELSE 1]
        /\ Goto(t, "create_commit")
        /\ UNCHANGED <<schema_locks, lockOwner, nextLockId, cache, cache_timestamps, now>>
        /\ UNCHANGED dbVars

\* create_schema: the rows added and db.session.commit(); the schema row
\* carries the version the thread computed from what it read
CreateCommit(t) ==
    LET o == create_schema(DB, tlocal[t].asset_type_id, <<DefA>>, 0, FALSE)
    IN  /\ pc[t] = "create_commit"
        /\ schemas' = [o.db.schemas EXCEPT ![o.id].version = tlocal[t].version_number]
        /\ fields' = o.db.fields
        /\ nextFieldId' = o.db.nextFieldId
        /\ records' = o.db.records
        /\ values' = o.db.values
        /\ versions' = o.db.versions
        /\ changeLog' = o.db.changeLog
        /\ Invalidate("schema_manager", o.id, o.ok)
        /\ Goto(t, "create_release")
        /\ UNCHANGED <<schema_locks, lockOwner, nextLockId, tlocal>>

\* create_schema: with self.lock, leaving
CreateRelease(t) ==
    /\ pc[t] = "create_release"
    /\ lockOwner' = [lockOwner EXCEPT ![tlocal[t].lock] = 0]
    /\ Goto(t, "idle")
    /\ tlocal' = [tlocal EXCEPT ![t] = IdleLocal]
    /\ UNCHANGED <<schema_locks, nextLockId, cache, cache_timestamps, now>>
    /\ UNCHANGED dbVars

NextCreate ==
    \E t \in Threads :
        \/ CallCreate(t)
        \/ CreateAcquire(t)
        \/ CreateRead(t)
        \/ CreateCommit(t)
        \/ CreateRelease(t)

SpecCreate == Init /\ [][NextCreate]_vars

(***************************************************************************)
(* SpecSerial: request threads on the first schema, inside                 *)
(* SchemaManager.add_field (through _get_lock and with schema_lock) or     *)
(* inside SchemaVersionControl.create_snapshot or rollback, which take no  *)
(* lock.                                                                   *)
(***************************************************************************)
MaxSerialLog == 5

\* a request thread enters add_field, create_snapshot or rollback
CallSerial(t) ==
    \E op \in {"check1", "snapshot_read", "rollback_read"},
       target_version \in 1..MaxVersion :
        /\ pc[t] = "idle"
        /\ Len(changeLog) + Len(versions)
               + 2 * Cardinality({u \in Threads : pc[u] # "idle"}) < 2 * MaxSerialLog
        /\ op # "rollback_read" => target_version = 1
        /\ tlocal' = [tlocal EXCEPT ![t] = [IdleLocal EXCEPT
                                               !.schema_id = 1,
                                               !.field_name = "b",
                                               !.target_version = target_version]]
        /\ Goto(t, op)
        /\ UNCHANGED <<schema_locks, lockOwner, nextLockId, cache, cache_timestamps, now>>
        /\ UNCHANGED dbVars

\* create_snapshot: the latest-version query and _build_snapshot
SnapshotRead(t) ==
    /\ pc[t] = "snapshot_read"
    /\ tlocal' = [tlocal EXCEPT
                     ![t].version_number =
                         LatestVersion(versions, tlocal[t].schema_id).version_number,
                     ![t].snapshot = _build_snapshot(fields, tlocal[t].schema_id)]
    /\ Goto(t, "snapshot_commit")
    /\ UNCHANGED <<schema_locks, lockOwner, nextLockId, cache, cache_timestamps, now>>
    /\ UNCHANGED dbVars

\* create_snapshot: db.session.add(version) and db.session.commit()
SnapshotCommit(t) ==
    LET l == tlocal[t]
        dirty == [DB EXCEPT !.versions = Append(@,
                     [schema_id |-> l.schema_id,
                      version_number |-> l.version_number + 1,
                      schema_snapshot |-> l.snapshot])]
        o == Commit(DB, dirty, FALSE)
    IN  /\ pc[t] = "snapshot_commit"
        /\ versions' = o.db.versions
        /\ Goto(t, "idle")
        /\ tlocal' = [tlocal EXCEPT ![t] = IdleLocal]
        /\ UNCHANGED <<schemas, fields, nextFieldId, records, values, changeLog>>
        /\ UNCHANGED <<schema_locks, lockOwner, nextLockId, cache, cache_timestamps, now>>

\* rollback: the target and current_version queries; the diff is computed
\* from the snapshots read here
RollbackRead(t) ==
    /\ pc[t] = "rollback_read"
    /\ IF FindVersion(versions, tlocal[t].schema_id, tlocal[t].target_version) = {}
       THEN Goto(t, "idle") /\ tlocal' = [tlocal EXCEPT ![t] = IdleLocal]
       ELSE /\ tlocal' = [tlocal EXCEPT ![t].version_number =
                             LatestVersion(versions, tlocal[t].schema_id).version_number]
            /\ Goto(t, "rollback_commit")
    /\ UNCHANGED <<schema_locks, lockOwner, nextLockId, cache, cache_timestamps, now>>
    /\ UNCHANGED dbVars

\* the SchemaVersion rows a thread saw when version_number was the latest of
\* schema_id
VersionsRead(vers, schema_id, version_number) ==
    SelectSeq(vers, LAMBDA v : v.schema_id # schema_id \/ v.version_number <= version_number)

\* rollback: the field queries and changes, the ChangeLog row and
\* db.session.commit(), from the diff of the versions read
RollbackCommit(t) ==
    \E preserve_data \in BOOLEAN :
        LET l == tlocal[t]
            o == rollback([DB EXCEPT !.versions =
                               VersionsRead(versions, l.schema_id, l.version_number)],
                          l.schema_id, l.target_version, preserve_data, FALSE)
        IN  /\ pc[t] = "rollback_commit"
            /\ fields' = o.db.fields
            /\ nextFieldId' = o.db.nextFieldId
            /\ values' = o.db.values
            /\ changeLog' = o.db.changeLog
            /\ Invalidate("version_control", l.schema_id, o.changed)
            /\ Goto(t, "idle")
            /\ tlocal' = [tlocal EXCEPT ![t] = IdleLocal]
            /\ UNCHANGED <<schemas, records, versions>>
            /\ UNCHANGED <<schema_locks, lockOwner, nextLockId>>

NextSerial ==
    \E t \in Threads :
        \/ CallSerial(t)
        \/ _get_lock(t)
        \/ AcquireSchemaLock(t)
        \/ BodyCheck(t)
        \/ BodyVersion(t)
        \/ BodyCommit(t)
        \/ ReleaseSchemaLock(t)
        \/ SnapshotRead(t)
        \/ SnapshotCommit(t)
        \/ RollbackRead(t)
        \/ RollbackCommit(t)

SpecSerial == InitLock /\ [][NextSerial]_vars

(***************************************************************************)

(* SpecReadThrough: request threads on the first schema that share one     *)
(* MetadataCatalog, the one of the SchemaManager: add_field calls, and     *)
(* get_fields(include_deleted=False) lookups in their three statements     *)
(* _get_from_cache, the query and _put_in_cache.                           *)
(***************************************************************************)
SharedCatalog == "schema_manager"

\* a request thread enters add_field or get_fields
CallShared(t) ==
    \E op \in {"check1", "lookup_get"}, field_name \in LockNames :
        /\ pc[t] = "idle"
        /\ tlocal' = [tlocal EXCEPT ![t] = [IdleLocal EXCEPT
                                               !.schema_id = 1,
                                               !.field_name = field_name]]
        /\ Goto(t, op)
        /\ UNCHANGED <<schema_locks, lockOwner, nextLockId, cache, cache_timestamps, now>>
        /\ UNCHANGED dbVars

\* get_fields: cached = self._get_from_cache(cache_key); return on a hit
LookupGet(t) ==
    /\ pc[t] = "lookup_get"
    /\ IF Hit(SharedCatalog, FieldsKey(tlocal[t].schema_id, FALSE))
       THEN Goto(t, "idle") /\ tlocal' = [tlocal EXCEPT ![t] = IdleLocal]
       ELSE Goto(t, "lookup_load") /\ UNCHANGED tlocal
    /\ UNCHANGED <<schema_locks, lockOwner, nextLockId, cache, cache_timestamps, now>>
    /\ UNCHANGED dbVars

\* get_fields: the query and fields_data
LookupLoad(t) ==
    /\ pc[t] = "lookup_load"
    /\ tlocal' = [tlocal EXCEPT ![t].fields = LoadFields(fields, tlocal[t].schema_id, FALSE)]
    /\ Goto(t, "lookup_put")
    /\ UNCHANGED <<schema_locks, lockOwner, nextLockId, cache, cache_timestamps, now>>
    /\ UNCHANGED dbVars

\* get_fields: self._put_in_cache(cache_key, fields_data)
LookupPut(t) ==
    LET key == FieldsKey(tlocal[t].schema_id, FALSE)
    IN  /\ pc[t] = "lookup_put"
        /\ cache' = [cache EXCEPT ![SharedCatalog] = _put_in_cache(@, key, tlocal[t].fields)]
        /\ cache_timestamps' = [cache_timestamps EXCEPT
                                   ![SharedCatalog] = _put_in_cache(@, key, now)]
        /\ Goto(t, "idle")
        /\ tlocal' = [tlocal EXCEPT ![t] = IdleLocal]
        /\ UNCHANGED <<schema_locks, lockOwner, nextLockId, now>>
        /\ UNCHANGED dbVars

NextReadThrough ==
    \E t \in Threads :
        \/ CallShared(t)
        \/ _get_lock(t)
        \/ AcquireSchemaLock(t)
        \/ BodyCheck(t)
        \/ BodyVersion(t)
        \/ BodyCommit(t)
        \/ ReleaseSchemaLock(t)
        \/ LookupGet(t)
        \/ LookupLoad(t)
        \/ LookupPut(t)

SpecReadThrough == InitLock /\ [][NextReadThrough]_vars

(***************************************************************************)

(* SpecLive: request threads on one SchemaManager and its MetadataCatalog: *)
(* create_schema (with self.lock), add_field on the first schema (through  *)
(* _get_lock, with schema_lock; remove_field and modify_field take the     *)
(* same locks in the same order) and get_fields lookups of the first       *)
(* schema.  Every with self.lock block of the                              *)
(* catalog is entered and left in separate steps, so a thread can wait for *)
(* the catalog lock while it holds the registry lock or a schema lock.     *)
(* Lock steps are strongly fair, the other steps of a started call weakly  *)
(* fair; starting a call is not required.                                  *)
(***************************************************************************)
MaxLiveSchemas == 2

\* MetadataCatalog.lock of the SchemaManager's catalog, beside lock 0 and the
\* schema locks 1, 2, ...
CatalogLock == -1

\* one schema created by create_schema, with the field "a"
LiveDB == create_schema(EmptyDB, 1, <<DefA>>, 0, FALSE).db

InitLive ==
    /\ schemas = LiveDB.schemas
    /\ fields = LiveDB.fields
    /\ nextFieldId = LiveDB.nextFieldId
    /\ records = LiveDB.records
    /\ values = LiveDB.values
    /\ versions = LiveDB.versions
    /\ changeLog = LiveDB.changeLog
    /\ cache = [c \in Catalogs |-> EmptyCache]
    /\ cache_timestamps = [c \in Catalogs |-> EmptyCache]
    /\ now = 0
    /\ schema_locks = [s \in {} |-> 0]
    /\ lockOwner = [l \in {0, CatalogLock} |-> 0]
    /\ nextLockId = 1
    /\ pc = [t \in Threads |-> "idle"]
    /\ tlocal = [t \in Threads |-> IdleLocal]

\* a request thread enters add_field, create_schema or get_fields
CallLive(t) ==
    \E op \in {"check1", "create_acquire", "get_acquire"} :
        /\ pc[t] = "idle"
        /\ op = "create_acquire" =>
               Cardinality(DOMAIN schemas)
                   + Cardinality({u \in Threads : pc[u] \in {"create_acquire", "create_read",
                                                             "create_commit"}})
                   < MaxLiveSchemas
        /\ tlocal' = [tlocal EXCEPT ![t] = [IdleLocal EXCEPT
                                               !.schema_id = 1,
                                               !.field_name = "b",
                                               !.asset_type_id = 1]]
        /\ Goto(t, op)
        /\ UNCHANGED <<schema_locks, lockOwner, nextLockId, cache, cache_timestamps, now>>
        /\ UNCHANGED dbVars

\* add_field: db.session.commit(); on an exception the session is rolled
\* back and the with block is left, otherwise invalidate_schema follows
BodyCommitLive(t) ==
    LET l == tlocal[t]
        field == FieldRow(nextFieldId, l.schema_id, l.field_name, "integer", FALSE,
                          NULL, NULL, NULL, l.max_order + 1)
        new_fields == fields \cup {field}
        dirty == [DB EXCEPT
                     !.fields = new_fields,
                     !.nextFieldId = @ + 1,
                     !.changeLog = Append(@,
                         LogRow(l.schema_id, "field_added", l.field_name, FALSE, 0, 0,
                                _get_schema_snapshot(new_fields, l.schema_id))),
                     !.versions = Append(@,
                         [schema_id |-> l.schema_id,
                          version_number |-> l.version_number + 1,
                          schema_snapshot |-> _get_schema_snapshot(new_fields, l.schema_id)])]
    IN  \E fault \in BOOLEAN :
            LET o == Commit(DB, dirty, fault)
            IN  /\ pc[t] = "body_commit"
                /\ schemas' = o.db.schemas
                /\ fields' = o.db.fields
                /\ nextFieldId' = o.db.nextFieldId
                /\ records' = o.db.records
                /\ values' = o.db.values
                /\ versions' = o.db.versions
                /\ changeLog' = o.db.changeLog
                /\ Goto(t, IF o.ok THEN "invalidate_acquire" ELSE "release")
                /\ UNCHANGED <<schema_locks, lockOwner, nextLockId, tlocal,
                               cache, cache_timestamps, now>>

\* create_schema: the rows added and db.session.commit(); on an exception the
\* with self.lock block is left, otherwise invalidate_schema(schema.id) follows
CreateCommitLive(t) ==
    \E fault \in BOOLEAN :
        LET o == create_schema(DB, tlocal[t].asset_type_id, <<DefA>>, 0, fault)
        IN  /\ pc[t] = "create_commit"
            /\ schemas' = IF o.ok
                          THEN [o.db.schemas EXCEPT ![o.id].version = tlocal[t].version_number]
                          ELSE o.db.schemas
            /\ fields' = o.db.fields
            /\ nextFieldId' = o.db.nextFieldId
            /\ records' = o.db.records
            /\ values' = o.db.values
            /\ versions' = o.db.versions
            /\ changeLog' = o.db.changeLog
            /\ tlocal' = IF o.ok THEN [tlocal EXCEPT ![t].schema_id = o.id] ELSE tlocal
            /\ Goto(t, IF o.ok THEN "invalidate_acquire" ELSE "release")
            /\ UNCHANGED <<schema_locks, lockOwner, nextLockId, cache, cache_timestamps, now>>

\* a with self.lock block of MetadataCatalog that is left without releasing
CatalogReleaseSkipped(t) ==
    /\ pc[t] \in {"get_locked", "put_locked", "invalidate_locked"}
    /\ Goto(t, IF pc[t] = "invalidate_locked" THEN "release" ELSE "idle")
    /\ tlocal' = IF pc[t] = "invalidate_locked" THEN tlocal
                 ELSE [tlocal EXCEPT ![t] = IdleLocal]
    /\ UNCHANGED <<schema_locks, lockOwner, nextLockId, cache, cache_timestamps, now>>
    /\ UNCHANGED dbVars

\* with self.lock of _get_from_cache, _put_in_cache and invalidate_schema:
\* entering
CatalogAcquire(t) ==
    /\ pc[t] \in {"get_acquire", "lookup_put", "invalidate_acquire"}
    /\ lockOwner[CatalogLock] = 0
    /\ lockOwner' = [lockOwner EXCEPT ![CatalogLock] = t]
    /\ Goto(t, CASE pc[t] = "get_acquire" -> "get_locked"
                 [] pc[t] = "lookup_put" -> "put_locked"
                 [] OTHER -> "invalidate_locked")
    /\ UNCHANGED <<schema_locks, nextLockId, tlocal, cache, cache_timestamps, now>>
    /\ UNCHANGED dbVars

\* the body of the with self.lock block and leaving it: _get_from_cache
\* returns the entry or None, _put_in_cache stores, invalidate_schema removes
\* the keys of the schema
CatalogRelease(t) ==
    LET key == FieldsKey(tlocal[t].schema_id, FALSE)
    IN  /\ pc[t] \in {"get_locked", "put_locked", "invalidate_locked"}
        /\ lockOwner' = [lockOwner EXCEPT ![CatalogLock] = 0]
        /\ CASE pc[t] = "get_locked" ->
                    /\ IF Hit(SharedCatalog, key)
                       THEN Goto(t, "idle") /\ tlocal' = [tlocal EXCEPT ![t] = IdleLocal]
                       ELSE Goto(t, "lookup_load") /\ UNCHANGED tlocal
                    /\ UNCHANGED <<cache, cache_timestamps>>
             [] pc[t] = "put_locked" ->
                    /\ cache' = [cache EXCEPT
                                    ![SharedCatalog] = _put_in_cache(@, key, tlocal[t].fields)]
                    /\ cache_timestamps' = [cache_timestamps EXCEPT
                                               ![SharedCatalog] = _put_in_cache(@, key, now)]
                    /\ Goto(t, "idle")
                    /\ tlocal' = [tlocal EXCEPT ![t] = IdleLocal]
             [] OTHER ->
                    /\ cache' = [cache EXCEPT
                                    ![SharedCatalog] = invalidate_schema(@, tlocal[t].schema_id)]
                    /\ cache_timestamps' = [cache_timestamps EXCEPT
                                               ![SharedCatalog] =
                                                   invalidate_schema(@, tlocal[t].schema_id)]
                    /\ Goto(t, "release")
                    /\ UNCHANGED tlocal
        /\ UNCHANGED <<schema_locks, nextLockId, now>>
        /\ UNCHANGED dbVars

\* the steps in which thread t takes a lock
LockStep(t) ==
    \/ AcquireGlobal(t)
    \/ AcquireSchemaLock(t)
    \/ CreateAcquire(t)
    \/ CatalogAcquire(t)

\* the other steps of a call that thread t has started
RunStep(t) ==
    \/ Check1(t)
    \/ Check2(t)
    \/ ReleaseGlobal(t)
    \/ Fetch(t)
    \/ BodyCheck(t)
    \/ BodyVersion(t)
    \/ BodyCommitLive(t)
    \/ CreateRead(t)
    \/ CreateCommitLive(t)
    \/ LookupLoad(t)
    \/ CatalogRelease(t)
    \/ ReleaseSchemaLock(t)

NextLive ==
    \E t \in Threads :
        \/ CallLive(t)
        \/ LockStep(t)
        \/ RunStep(t)

SpecLive ==
    /\ InitLive
    /\ [][NextLive]_vars
    /\ \A t \in Threads : WF_vars(RunStep(t)) /\ SF_vars(LockStep(t))

(***************************************************************************)

(* Properties.                                                             *)
(***************************************************************************)
\* the names of the rows of a snapshot that are not deleted
SnapActive(snapshot) == {f.name : f \in {g \in snapshot : ~g.deleted}}

\* the names get_fields(schema_id, include_deleted=False) returns from the database
VisibleNames(fs, schema_id) == {d.name : d \in LoadFields(fs, schema_id, FALSE)}

\* the last two ChangeLog rows are addField(f) then removeField(f, permanent=False)
\* on the same schema
AddedThenSoftRemoved ==
    /\ Len(changeLog) >= 2
    /\ changeLog[Len(changeLog) - 1].change_type = "field_added"
    /\ changeLog[Len(changeLog)].change_type = "field_removed"
    /\ changeLog[Len(changeLog)].flag = FALSE
    /\ changeLog[Len(changeLog)].schema_id = changeLog[Len(changeLog) - 1].schema_id
    /\ changeLog[Len(changeLog)].field_name = changeLog[Len(changeLog) - 1].field_name

\* C1: once addField(S, f) and then removeField(S, f, permanent=False) have
\* committed, get_fields(S, include_deleted=False) does not contain f, and
\* rollback(S, n), n being the latest version before the addField, succeeds,
\* leaves the active field names of S equal to those before the addField and
\* still does not show f.
C1_RoundTrip ==
    AddedThenSoftRemoved =>
        LET added == changeLog[Len(changeLog) - 1]
            S == added.schema_id
            f == added.field_name
            n == LatestVersion(versions, S).version_number - 2
            before == SnapActive(added.schema_snapshot) \ {f}
        IN  /\ f \notin VisibleNames(fields, S)
            /\ \A preserve_data \in BOOLEAN :
                   LET o == rollback(DB, S, n, preserve_data, FALSE)
                   IN  /\ o.ok
                       /\ ActiveNames(o.db.fields, S) = before
                       /\ f \notin VisibleNames(o.db.fields, S)

\* a call that fails leaves every table as it was; a call that changes the
\* tables commits its ChangeLog row and, for the SchemaManager calls, its
\* SchemaVersion row together with the field rows the row's snapshot describes
AllOrNothing(o, schema_id, versioned) ==
    /\ ~o.ok => o.db = DB
    /\ (o.ok /\ o.db # DB) =>
          /\ Len(o.db.changeLog) = Len(changeLog) + 1
          /\ o.db.changeLog[Len(o.db.changeLog)].schema_id = schema_id
          /\ versioned =>
                /\ Len(o.db.versions) = Len(versions) + 1
                /\ o.db.versions[Len(o.db.versions)].schema_snapshot
                       = _get_schema_snapshot(o.db.fields, schema_id)

\* C2: in every reachable state, each call of create_schema, add_field,
\* remove_field, modify_field and rollback, with any input and with or without
\* a refused commit, either commits all of its writes or leaves the schema,
\* field, value, version and change-log rows exactly as they were.
C2_Atomicity ==
    /\ \A defs \in CreateInputs(AtomicScope), fault \in BOOLEAN :
           LET o == create_schema(DB, 1, defs, 0, fault)
           IN  AllOrNothing(o, o.id, TRUE)
    /\ \A schema_id \in SchemaIds, field_name \in Names, fault \in BOOLEAN :
           /\ \A opt \in AddOptions(AtomicScope) :
                  AllOrNothing(add_field(DB, schema_id, field_name, "integer", opt[1],
                                         opt[2], NULL, NULL, fault), schema_id, TRUE)
           /\ \A permanent \in BOOLEAN :
                  AllOrNothing(remove_field(DB, schema_id, field_name, permanent, fault),
                               schema_id, TRUE)
           /\ \A new_type \in NewTypes(AtomicScope), patch \in Patches(AtomicScope),
                 order \in RowOrders(FieldValueRows(schema_id, field_name)) :
                  AllOrNothing(modify_field(DB, schema_id, field_name, new_type, patch[1],
                                            patch[2], NULL, order, fault), schema_id, TRUE)
    /\ \A schema_id \in SchemaIds, target_version \in 1..MaxVersion,
          preserve_data \in BOOLEAN, fault \in BOOLEAN :
           AllOrNothing(rollback(DB, schema_id, target_version, preserve_data, fault),
                        schema_id, FALSE)

\* a state in which add_field fails in the backfill, after the field row was
\* flushed, and rollback fails at its commit, after it recreated a field
C2_FailsAfterWrites ==
    \E schema_id \in DOMAIN schemas, target_version \in 1..MaxVersion :
        /\ RecordsOf(records, schema_id) # {}
        /\ add_field(DB, schema_id, "b", "integer", TRUE, PyStr("5"), NULL, NULL,
                     FALSE).err = "Failed to add field"
        /\ rollback(DB, schema_id, target_version, TRUE, FALSE).err = "commit failed"

\* C3: no two threads are inside the with schema_lock block of the same
\* schema at once, every thread past _get_lock holds the one lock registered
\* for its schema, and the fields of a schema committed by concurrent
\* add_field calls have distinct order indexes and the versions distinct
\* version numbers.
C3_MutualExclusion ==
    /\ \A t1, t2 \in Threads :
           (t1 # t2 /\ InBody(t1) /\ InBody(t2)) =>
               tlocal[t1].schema_id # tlocal[t2].schema_id
    /\ \A t \in Threads :
           (pc[t] = "acquire" \/ InBody(t)) =>
               tlocal[t].lock = schema_locks[tlocal[t].schema_id]
    /\ \A f, g \in fields :
           (f.schema_id = g.schema_id /\ f.order_index = g.order_index) => f = g
    /\ uq_schema_version(versions)

\* both threads found no lock registered for the schema on their first test;
\* one is in the body and the other waits for the same lock
C3_FirstRequestRace ==
    \E t1, t2 \in Threads :
        /\ t1 # t2
        /\ InBody(t1) /\ pc[t2] = "acquire"
        /\ tlocal[t1].first /\ tlocal[t2].first
        /\ tlocal[t1].schema_id = tlocal[t2].schema_id
        /\ tlocal[t1].lock = tlocal[t2].lock

\* C4: a modify_field that commits a type change has re-stored every
\* non-null value of the field through set_value under the new type: the row
\* set_value builds from the old value is the row in the table afterwards.
C4_MigratesEveryValue ==
    [][\A f \in fields : \A g \in fields' :
          (/\ g.id = f.id
           /\ g.field_type # f.field_type
           /\ Len(changeLog') = Len(changeLog) + 1
           /\ changeLog'[Len(changeLog')].change_type = "field_modified")
          => \A v \in ValuesOf(values, f.id) :
                 get_value(v, f.field_type) # NULL =>
                     set_value(v, g.field_type, get_value(v, f.field_type)) \in values'
      ]_vars

\* the typed columns of a FieldValue row that are not NULL
NonNullSlots(v) == {slot \in Slots : v[slot] # NULL}

\* C5: every FieldValue row has at most one non-null typed column, and a row
\* that holds a value holds it in the column of its field's current type.
C5_SlotMatchesType ==
    \A v \in values :
        /\ Cardinality(NonNullSlots(v)) <= 1
        /\ NonNullSlots(v) # {} =>
               \E f \in fields : /\ f.id = v.schema_field_id
                                 /\ NonNullSlots(v) = {SlotOf(f.field_type)}

\* C6: when removeField(S, f, permanent=False) is followed by a committed
\* rollback of S to a version in whose snapshot f is active, f is active again.
C6_RollbackUndeletes ==
    (/\ Len(changeLog) >= 2
     /\ changeLog[Len(changeLog) - 1].change_type = "field_removed"
     /\ changeLog[Len(changeLog) - 1].flag = FALSE
     /\ changeLog[Len(changeLog)].change_type = "rollback"
     /\ changeLog[Len(changeLog)].schema_id = changeLog[Len(changeLog) - 1].schema_id
     /\ changeLog[Len(changeLog) - 1].field_name
            \in SnapActive(changeLog[Len(changeLog)].schema_snapshot))
    => changeLog[Len(changeLog) - 1].field_name
           \in ActiveNames(fields, changeLog[Len(changeLog)].schema_id)

\* C7: no schema has two active field rows with the same name.
C7_OneActivePerName ==
    \A f, g \in fields :
        (/\ f.schema_id = g.schema_id
         /\ f.field_name = g.field_name
         /\ ~f.is_deleted /\ ~g.is_deleted) => f = g

\* a rollback has recreated a field (its row is in no version's snapshot) and
\* a repeated rollback to the same target is refused
C7_RecreatedAndRepeated ==
    \E f \in fields :
        /\ ~f.is_deleted
        /\ \A i \in DOMAIN versions : \A d \in versions[i].schema_snapshot : d.id # f.id
        /\ changeLog[Len(changeLog)].change_type = "rollback"
        /\ changeLog[Len(changeLog)].schema_id = f.schema_id
        /\ ~rollback(DB, f.schema_id, changeLog[Len(changeLog)].to_version, TRUE, FALSE).ok

\* C8: when a schema holds a soft-deleted row of a name and no active one,
\* add_field of that name with a valid definition succeeds, creates an active
\* row and keeps the soft-deleted row.
C8_SoftDeletedNameReusable ==
    \A schema_id \in DOMAIN schemas, field_name \in Names :
        (/\ FindField(fields, schema_id, field_name, TRUE) # {}
         /\ FindField(fields, schema_id, field_name, FALSE) = {})
        => LET o == add_field(DB, schema_id, field_name, "integer", FALSE, NULL,
                              NULL, NULL, FALSE)
           IN  /\ o.ok
               /\ FindField(o.db.fields, schema_id, field_name, FALSE) # {}
               /\ FindField(fields, schema_id, field_name, TRUE) \subseteq o.db.fields

\* C9: a get_fields or get_schema_statistics lookup about any schema, through
\* any catalog instance, returns what the database holds now, so a lookup
\* after a mutation never returns what was cached before it.
C9_CacheCoherent ==
    \A c \in Catalogs, schema_id \in DOMAIN schemas :
        \A key \in {FieldsKey(schema_id, FALSE), FieldsKey(schema_id, TRUE),
                     StatsKey(schema_id)} :
            Lookup(c, key) = Load(fields, records, key)

\* C11: no step changes or removes a SchemaVersion row that exists, every
\* row a step adds is numbered one more than the schema's highest number
\* before the step (1 for a schema without versions), and the version numbers
\* of a schema are pairwise distinct.
C11_VersionsAppendOnly ==
    [][/\ Len(versions') >= Len(versions)
       /\ \A i \in DOMAIN versions : versions'[i] = versions[i]
       /\ \A i \in DOMAIN versions' \ DOMAIN versions :
              versions'[i].version_number =
                  IF VersionsOf(versions, versions'[i].schema_id) # {}
                  THEN LatestVersion(versions, versions'[i].schema_id).version_number + 1
                  ELSE 1
       /\ uq_schema_version(versions')
      ]_vars

\* a schema with three versions, one of them a manual snapshot, after a
\* committed rollback
C11_SnapshotAfterRollback ==
    \E schema_id \in DOMAIN schemas :
        /\ Cardinality(VersionsOf(versions, schema_id)) >= 3
        /\ \E i \in DOMAIN changeLog : /\ changeLog[i].schema_id = schema_id
                                        /\ changeLog[i].change_type = "rollback"
        /\ Cardinality(VersionsOf(versions, schema_id))
               > Cardinality({i \in DOMAIN changeLog : changeLog[i].schema_id = schema_id
                                  /\ changeLog[i].change_type # "rollback"})

\* what a snapshot says of names, types, required flags, constraints and
\* deleted flags
Described(snapshot) ==
    {[name |-> d.name, type |-> d.type, required |-> d.required,
      constraints |-> d.constraints, deleted |-> d.deleted] : d \in snapshot}

\* C10: every committed mutation of a schema, rollback included, has appended
\* one SchemaVersion, and the latest SchemaVersion snapshot describes the
\* schema's live field rows.
C10_LatestSnapshotIsLive ==
    \A schema_id \in DOMAIN schemas :
        /\ Cardinality(VersionsOf(versions, schema_id))
               = Cardinality({i \in DOMAIN changeLog : changeLog[i].schema_id = schema_id})
        /\ Described(LatestVersion(versions, schema_id).schema_snapshot)
               = Described(_get_schema_snapshot(fields, schema_id))

\* the modify_field calls that request another type for the active field f
\* and are rejected: by the compatibility table, by validate_type_change on
\* the stored values, or by a conversion that raises during the migration
RejectedTypeChange(f, new_type, order) ==
    /\ new_type # f.field_type
    /\ \/ new_type \notin TYPE_COMPATIBILITY[f.field_type]
       \/ validate_type_change(fields, values, f.id, f.field_type, new_type) # {}
       \/ _migrate_field_type([field_type |-> f.field_type, values |-> values, err |-> FALSE],
                              order, f.field_type, new_type).err

\* C12: a modify_field call whose type change is rejected fails and leaves
\* the field rows and every stored value as they were, whatever the other
\* arguments are.
C12_RejectedTypeChangeKeepsAll ==
    \A f \in {g \in fields : ~g.is_deleted} :
        \A new_type \in SUPPORTED_TYPES, patch \in Patches(FullScope), fault \in BOOLEAN :
            \A order \in RowOrders(ValuesOf(values, f.id)) :
                RejectedTypeChange(f, new_type, order) =>
                    LET o == modify_field(DB, f.schema_id, f.field_name, new_type,
                                          patch[1], patch[2], NULL, order, fault)
                    IN  /\ ~o.ok
                        /\ o.db.fields = fields
                        /\ o.db.values = values

\* a float field that holds a value, on which modify_field to boolean fails
C12_FloatToBooleanRefused ==
    \E f \in {g \in fields : ~g.is_deleted} :
        /\ f.field_type = "float"
        /\ \E v \in ValuesOf(values, f.id) : v.value_float # NULL
        /\ \A order \in RowOrders(ValuesOf(values, f.id)) :
               /\ validate_type_change(fields, values, f.id, "float", "boolean") # {}
               /\ ~modify_field(DB, f.schema_id, f.field_name, "boolean", NULL, NULL,
                                NULL, order, FALSE).ok

\* C13: add_field of a new required field with a non-null default, on a schema
\* that has records, succeeds and leaves every record of the schema with exactly
\* one FieldValue of the new field, holding the default coerced to the field's
\* type; a field added as not required creates no FieldValue.
C13_BackfillsDefault ==
    \A schema_id \in DOMAIN schemas, field_name \in Names, field_type \in AddTypes :
        (/\ RecordsOf(records, schema_id) # {}
         /\ FindField(fields, schema_id, field_name, FALSE) = {}
         /\ FindField(fields, schema_id, field_name, TRUE) = {}) =>
            LET default_value == PyStr("5")
                o == add_field(DB, schema_id, field_name, field_type, TRUE,
                               default_value, NULL, NULL, FALSE)
                plain == add_field(DB, schema_id, field_name, field_type, FALSE,
                                   NULL, NULL, NULL, FALSE)
            IN  /\ o.ok
                /\ \A r \in RecordsOf(records, schema_id) :
                       {v \in o.db.values : v.record_id = r /\ v.schema_field_id = nextFieldId}
                           = {set_value(NewFieldValue(r, nextFieldId), field_type, default_value)}
                /\ plain.ok => plain.db.values = values

\* field definitions that are required and carry no default value: the key
\* absent, and the key present with null
RequiredNoDefault ==
    {[name |-> "b", type |-> "string", required |-> TRUE],
     [name |-> "b", type |-> "string", required |-> TRUE, default |-> NULL]}

\* C14: create_schema, fork_schema and add_field given a required field
\* definition without a default value fail and create no field, with or
\* without records in the schema.
C14_RequiredNeedsDefault ==
    /\ \A def \in RequiredNoDefault, asset_type_id \in AssetTypeIds :
           LET o == create_schema(DB, asset_type_id, <<def>>, 0, FALSE)
           IN  ~o.ok /\ o.db.fields = fields
    /\ \A def \in RequiredNoDefault, schema_id \in DOMAIN schemas :
           LET o == fork_schema(DB, schema_id, <<def>>, {}, FALSE)
           IN  ~o.ok /\ o.db.fields = fields
    /\ \A schema_id \in DOMAIN schemas, field_type \in AddTypes :
           LET o == add_field(DB, schema_id, "b", field_type, TRUE, NULL, NULL, NULL, FALSE)
           IN  ~o.ok /\ o.db.fields = fields

\* the metadata_records table of a schema with LargeSchema + 1 records
LargeTable(schema_id) == [r \in 1..(LargeSchema + 1) |-> schema_id]

\* C15: on a schema with more than 100,000 records add_field of a valid,
\* optional field whose name is unused succeeds and inserts the field.
C15_LargeSchemaWarningOnly ==
    \A schema_id \in DOMAIN schemas, field_name \in Names, field_type \in AddTypes :
        (/\ FindField(fields, schema_id, field_name, FALSE) = {}
         /\ FindField(fields, schema_id, field_name, TRUE) = {}) =>
            LET big == [DB EXCEPT !.records = LargeTable(schema_id)]
                o == add_field(big, schema_id, field_name, field_type, FALSE,
                               NULL, NULL, NULL, FALSE)
            IN  /\ o.ok
                /\ FindField(o.db.fields, schema_id, field_name, FALSE) # {}

\* C16: a modify_field call whose type, required flag and constraints are each
\* omitted or equal to the field's current ones succeeds and changes nothing:
\* no ChangeLog row, no SchemaVersion, the field rows and values as before.
C16_ModifyNoOp ==
    \A f \in {g \in fields : ~g.is_deleted} :
        \A new_type \in {"None", f.field_type},
           new_required \in {NULL, IF f.is_required THEN PyBool("True") ELSE PyBool("False")},
           new_constraints \in {NULL, f.constraints} :
            \A order \in RowOrders(ValuesOf(values, f.id)) :
                LET o == modify_field(DB, f.schema_id, f.field_name, new_type, new_required,
                                      new_constraints, NULL, order, FALSE)
                IN  o.ok /\ o.db = DB

\* C17: for an active field without stored values and every other type,
\* validate_type_change returns no error and modify_field succeeds, making
\* that type the field's type, exactly when the type is listed for the old
\* type in TYPE_COMPATIBILITY; otherwise both refuse and the type stays.
C17_TableDecidesTypeChange ==
    \A f \in {g \in fields : ~g.is_deleted /\ ValuesOf(values, g.id) = {}} :
        \A new_type \in SUPPORTED_TYPES \ {f.field_type} :
            LET errors == validate_type_change(fields, values, f.id, f.field_type, new_type)
                o == modify_field(DB, f.schema_id, f.field_name, new_type, NULL, NULL,
                                  NULL, <<>>, FALSE)
                listed == new_type \in TYPE_COMPATIBILITY[f.field_type]
            IN  /\ (errors = {}) <=> listed
                /\ o.ok <=> listed
                /\ o.ok => FindField(o.db.fields, f.schema_id, f.field_name, FALSE)
                               = {[f EXCEPT !.field_type = new_type]}
                /\ ~o.ok => o.db.fields = fields

\* a float field that was an integer field: integer to float was allowed,
\* float back to integer is refused
C17_IntegerBecameFloat ==
    \E f \in {g \in fields : ~g.is_deleted /\ ValuesOf(values, g.id) = {}} :
        /\ f.field_type = "float"
        /\ \E i \in DOMAIN versions :
               /\ versions[i].schema_id = f.schema_id
               /\ \E d \in versions[i].schema_snapshot : d.name = f.field_name /\ d.type = "integer"
        /\ ~modify_field(DB, f.schema_id, f.field_name, "integer", NULL, NULL, NULL, <<>>, FALSE).ok

\* C18: a thread about to enter the with schema_lock block of its schema finds
\* the lock free whenever the threads inside a block all work on other
\* schemas, and the commit of every thread that reached it stores its field,
\* whatever the other threads do meanwhile.
C18_SchemasIndependent ==
    [][\A t \in Threads :
          /\ (/\ pc[t] = "acquire"
              /\ \A u \in Threads \ {t} :
                     (pc[u] = "acquire" \/ InBody(u)) =>
                         tlocal[u].schema_id # tlocal[t].schema_id)
                 => lockOwner[tlocal[t].lock] = 0
          /\ (pc[t] = "body_commit" /\ pc'[t] = "release")
                 => /\ FindField(fields', tlocal[t].schema_id, tlocal[t].field_name, FALSE) # {}
                    /\ FindField(fields, tlocal[t].schema_id, tlocal[t].field_name, FALSE) = {}
      ]_vars

\* two threads inside the with schema_lock blocks of different schemas at
\* once, one of them with its field already committed
C18_BothInBody ==
    \E t, u \in Threads :
        /\ t # u
        /\ InBody(t) /\ InBody(u)
        /\ tlocal[t].schema_id # tlocal[u].schema_id
        /\ pc[t] = "release"
        /\ FindField(fields, tlocal[t].schema_id, tlocal[t].field_name, FALSE) # {}
        /\ pc[u] = "body_commit"

\* C19: the schemas of an asset type carry the versions 1, 2, ..., one each:
\* every create_schema has assigned the highest version of the asset type
\* plus one, or 1 for the first, and no two schemas share a version.
C19_SchemaVersionsDistinct ==
    \A asset_type_id \in AssetTypeIds :
        LET same_type == {s \in DOMAIN schemas : schemas[s].asset_type_id = asset_type_id}
        IN  /\ \A s1, s2 \in same_type : schemas[s1].version = schemas[s2].version => s1 = s2
            /\ {schemas[s].version : s \in same_type} = 1..Cardinality(same_type)

\* the rows that belong to schema s: its fields, their values, its versions
\* and its ChangeLog rows
SchemaRows(fs, vals, vers, log, s) ==
    [fields |-> FieldsOf(fs, s),
     values |-> {v \in vals : \E f \in FieldsOf(fs, s) : v.schema_field_id = f.id},
     versions |-> VersionsOf(vers, s),
     log |-> {log[i] : i \in {j \in DOMAIN log : log[j].schema_id = s}}]

\* the tables after each add_field, remove_field, modify_field and rollback
\* call on schema s
Mutations(s) ==
    {add_field(DB, s, field_name, "integer", FALSE, NULL, NULL, NULL, FALSE).db :
         field_name \in Names}
    \cup {remove_field(DB, s, field_name, permanent, FALSE).db :
              field_name \in Names, permanent \in BOOLEAN}
    \cup {modify_field(DB, f.schema_id, f.field_name, new_type, NULL, NULL, NULL,
                       SortedById(ValuesOf(values, f.id)), FALSE).db :
              f \in {g \in FieldsOf(fields, s) : ~g.is_deleted},
              new_type \in {"string", "float"}}
    \cup {rollback(DB, s, target_version, preserve_data, FALSE).db :
              target_version \in 1..MaxVersion, preserve_data \in BOOLEAN}

\* C20: a fork_schema call that succeeds creates a schema whose parent is the
\* source and whose fields, none deleted, are named as the source's active
\* fields plus add_fields minus remove_fields, and leaves every row of the
\* existing schemas as it was; and a later add_field, remove_field,
\* modify_field or rollback on a fork leaves the rows of its source as they are, and one
\* on the source leaves the rows of its forks as they are.
C20_ForkIsIndependent ==
    /\ \A schema_id \in DOMAIN schemas, mods \in ForkInputs(FullScope) :
           LET o == fork_schema(DB, schema_id, mods[1], mods[2], FALSE)
           IN  o.ok =>
                   /\ o.id \notin DOMAIN schemas
                   /\ o.db.schemas[o.id].parent_schema_id = schema_id
                   /\ {f.field_name : f \in FieldsOf(o.db.fields, o.id)}
                          = (ActiveNames(fields, schema_id)
                                 \cup {mods[1][i].name : i \in DOMAIN mods[1]}) \ mods[2]
                   /\ \A f \in FieldsOf(o.db.fields, o.id) : ~f.is_deleted
                   /\ \A s \in DOMAIN schemas :
                          /\ o.db.schemas[s] = schemas[s]
                          /\ SchemaRows(o.db.fields, o.db.values, o.db.versions,
                                        o.db.changeLog, s)
                                 = SchemaRows(fields, values, versions, changeLog, s)
    /\ \A s1, s2 \in DOMAIN schemas :
           (schemas[s1].parent_schema_id = s2 \/ schemas[s2].parent_schema_id = s1) =>
               \A db \in Mutations(s1) :
                   /\ db.schemas[s2] = schemas[s2]
                   /\ SchemaRows(db.fields, db.values, db.versions, db.changeLog, s2)
                          = SchemaRows(fields, values, versions, changeLog, s2)

\* a fork of a schema that has a soft-deleted field and a record with a value,
\* the fork changed after its creation
C20_ForkChangedLater ==
    \E s \in DOMAIN schemas :
        LET p == schemas[s].parent_schema_id IN
        /\ p # 0
        /\ \E f \in FieldsOf(fields, p) : f.is_deleted /\ ValuesOf(values, f.id) # {}
        /\ \E i \in DOMAIN changeLog : /\ changeLog[i].schema_id = s
                                        /\ changeLog[i].change_type # "created"
        /\ ActiveNames(fields, s) # ActiveNames(fields, p)

\* the ttl of an entry: 60 s for usage statistics, 300 s for the others
TtlOf(key) == IF key.kind = "stats" THEN StatsTtl ELSE cache_ttl

\* C21: a lookup returns a cached entry exactly while the age of the entry,
\* now - insertedAt, is below the ttl of the entry; at that age or older the
\* entry is no hit.
C21_HitWhileYoungerThanTtl ==
    \A c \in ReadCatalogs :
        \A key \in DOMAIN cache[c] :
            Hit(c, key) <=> now - cache_timestamps[c][key] < TtlOf(key)


\* SchemaVersionControl.compare_versions: the diff of two stored versions
compare_versions(vers, schema_id, version1, version2) ==
    _calculate_diff((CHOOSE v \in FindVersion(vers, schema_id, version1) : TRUE).schema_snapshot,
                    (CHOOSE v \in FindVersion(vers, schema_id, version2) : TRUE).schema_snapshot)

\* C22: whenever add_field succeeds on a schema whose latest version is n and
\* makes n + 1 the latest, compare_versions(n, n + 1) reports the added name as
\* the only added field, no removed field and no modified field.
C22_DiffAroundAddField ==
    \A schema_id \in DOMAIN schemas, field_name \in Names :
        VersionsOf(versions, schema_id) # {} =>
            LET o == add_field(DB, schema_id, field_name, "string", FALSE, NULL, NULL,
                               NULL, FALSE)
                n == LatestVersion(versions, schema_id).version_number
            IN  (o.ok /\ LatestVersion(o.db.versions, schema_id).version_number = n + 1) =>
                    compare_versions(o.db.versions, schema_id, n, n + 1)
                        = [added_fields |-> {field_name}, removed_fields |-> {},
                           modified_fields |-> {}]

\* C23: comparing a stored version with itself gives no added, removed or
\* modified field, and for any two stored versions of a schema the fields
\* added from the first to the second are the fields removed from the second
\* to the first.
C23_DiffIsAntisymmetric ==
    \A schema_id \in DOMAIN schemas :
        \A v1, v2 \in {v.version_number : v \in VersionsOf(versions, schema_id)} :
            /\ compare_versions(versions, schema_id, v1, v1)
                   = [added_fields |-> {}, removed_fields |-> {}, modified_fields |-> {}]
            /\ compare_versions(versions, schema_id, v1, v2).added_fields
                   = compare_versions(versions, schema_id, v2, v1).removed_fields

\* two versions of a schema, the later with a field the earlier lacks and
\* with a soft-deleted field
C23_AddedAndSoftDeleted ==
    \E schema_id \in DOMAIN schemas :
        \E v1, v2 \in VersionsOf(versions, schema_id) :
            /\ v1.version_number < v2.version_number
            /\ compare_versions(versions, schema_id, v1.version_number,
                                v2.version_number).added_fields # {}
            /\ \E f \in v2.schema_snapshot : f.deleted

\* MetadataCatalog.get_fields of catalog c when the tables are db: the cached
\* list on a hit, the query otherwise
get_fields(c, db, schema_id, include_deleted) ==
    IF Hit(c, FieldsKey(schema_id, include_deleted))
    THEN cache[c][FieldsKey(schema_id, include_deleted)]
    ELSE LoadFields(db.fields, schema_id, include_deleted)

\* C24: remove_field(permanent=False) of an active field succeeds, keeps the
\* row with is_deleted set and every FieldValue as it was, and afterwards
\* get_fields(include_deleted=False) omits the field while
\* get_fields(include_deleted=True) lists it with deleted = true; remove_field
\* of a name without an active row fails and changes nothing.
C24_SoftRemoveOnlyFlags ==
    \A schema_id \in DOMAIN schemas, field_name \in Names :
        LET found == FindField(fields, schema_id, field_name, FALSE)
            o == remove_field(DB, schema_id, field_name, FALSE, FALSE)
        IN  /\ found = {} => \A permanent \in BOOLEAN :
                   LET r == remove_field(DB, schema_id, field_name, permanent, FALSE)
                   IN  ~r.ok /\ r.db = DB
            /\ found # {} =>
                   /\ o.ok
                   /\ o.db.fields = (fields \ found)
                                        \cup {[f EXCEPT !.is_deleted = TRUE] : f \in found}
                   /\ o.db.values = values
                   /\ \A c \in ReadCatalogs :
                          /\ field_name \notin SnapNames(get_fields(c, o.db, schema_id, FALSE))
                          /\ \E d \in get_fields(c, o.db, schema_id, TRUE) :
                                 d.name = field_name /\ d.deleted

\* raw values given to the codec: numbers, booleans, numeric text, a date
\* text and text that is neither a number nor a boolean
CodecValues ==
    {PyInt("5"), PyFloat("5.0"), PyBool("True"), PyBool("False"), PyStr("5"),
     PyStr("2024-01-01T00:00:00"), PyStr("abc")}

\* the values that are numbers, booleans or a date in no reading
NotANumberOrBoolean == {PyStr("abc")}

\* the tag of the native value each field type reads back
NativeTag ==
    [field_type \in {"string", "integer", "float", "boolean", "date"} |->
        CASE field_type = "integer" -> "int"
          [] field_type = "float" -> "float"
          [] field_type = "boolean" -> "bool"
          [] OTHER -> "str"]

\* the values the claim calls valid for a field type: any value for string,
\* json, array and object, numbers, booleans and numeric text for integer and
\* float, numbers and booleans for boolean, a date text for date
ValidFor(field_type) ==
    CASE field_type \in {"integer", "float"} ->
            {v \in CodecValues : v.t \in {"int", "float", "bool"} \/ v = PyStr("5")}
      [] field_type = "boolean" -> {v \in CodecValues : v.t \in {"int", "float", "bool"}}
      [] field_type = "date" -> {v \in CodecValues : v.t = "str" /\ v.s \in DateTexts}
      [] OTHER -> CodecValues

\* C25: for a valid value set_value succeeds and fills only the type's slot,
\* and get_value returns the value in the field type's native form (json,
\* array and object unchanged), which set_value stores the same way again;
\* set_value(None) leaves the six slots null; and set_value raises for a
\* value that is no integer, float or boolean when the field type is integer,
\* float or boolean.
C25_CodecRoundTrip ==
    \A fv \in values \cup {NewFieldValue(1, 1)}, field_type \in SUPPORTED_TYPES :
        /\ set_value(fv, field_type, NULL) = ClearSlots(fv)
        /\ \A v \in NotANumberOrBoolean :
               field_type \in {"integer", "float", "boolean"}
                   => IsErr(set_value(fv, field_type, v))
        /\ \A v \in ValidFor(field_type) :
               LET stored == set_value(fv, field_type, v)
               IN  /\ ~IsErr(stored)
                   /\ [ClearSlots(fv) EXCEPT ![SlotOf(field_type)] = stored[SlotOf(field_type)]]
                          = stored
                   /\ field_type \in {"json", "array", "object"}
                          => get_value(stored, field_type) = v
                   /\ field_type \notin {"json", "array", "object"}
                          => /\ get_value(stored, field_type).t = NativeTag[field_type]
                             /\ set_value(fv, field_type, get_value(stored, field_type))
                                    = stored

\* the ids of the Field rows
FieldIds(fs) == {f.id : f \in fs}

\* the values whose Field row is not in fs
Orphans(fs, vals) == {v \in vals : v.schema_field_id \notin FieldIds(fs)}

\* C26: every FieldValue references a Field row that exists; remove_field
\* with permanent=True and rollback with preserve_data=False delete, in the
\* call that deletes a Field row, exactly the FieldValues of the deleted rows
\* (nothing at all when the call fails); remove_field with permanent=False and
\* rollback with preserve_data=True delete no Field row and no FieldValue.
C26_NoOrphanedValues ==
    /\ Orphans(fields, values) = {}
    /\ \A schema_id \in DOMAIN schemas, fault \in BOOLEAN :
           /\ \A field_name \in Names :
                  LET hard == remove_field(DB, schema_id, field_name, TRUE, fault)
                      soft == remove_field(DB, schema_id, field_name, FALSE, fault)
                      found == FindField(fields, schema_id, field_name, FALSE)
                  IN  /\ hard.ok => /\ hard.db.fields = fields \ found
                                    /\ hard.db.values
                                           = {v \in values : v.schema_field_id \notin FieldIds(found)}
                      /\ ~hard.ok => hard.db.fields = fields /\ hard.db.values = values
                      /\ FieldIds(soft.db.fields) = FieldIds(fields)
                      /\ soft.db.values = values
           /\ \A target_version \in 1..MaxVersion :
                  LET hard == rollback(DB, schema_id, target_version, FALSE, fault)
                      soft == rollback(DB, schema_id, target_version, TRUE, fault)
                  IN  /\ hard.db.values
                             = {v \in values : v.schema_field_id \in FieldIds(hard.db.fields)}
                      /\ FieldIds(fields) \subseteq FieldIds(soft.db.fields)
                      /\ soft.db.values = values

\* a field was removed permanently or rolled back without preserve_data while
\* values of another field are stored
C26_HardDeleteBesideValues ==
    /\ values # {}
    /\ \E i \in DOMAIN changeLog :
           \/ changeLog[i].change_type = "field_removed" /\ changeLog[i].flag
           \/ changeLog[i].change_type = "rollback" /\ ~changeLog[i].flag

\* what a field row or a snapshot entry says of a field, its id aside
Attributes(d) ==
    [name |-> d.name, type |-> d.type, required |-> d.required, default |-> d.default,
     constraints |-> d.constraints, description |-> d.description, order |-> d.order]

\* C28: after a rollback to a stored version that reports success, the
\* active fields of the schema are the non-deleted fields of that version's
\* snapshot, equal in name, type, required flag, default, constraints,
\* description and order, also when a description-only modify_field came
\* before the rollback; and a second rollback to the same version changes no
\* field.
C28_RollbackReachesTarget ==
    \A schema_id \in DOMAIN schemas, preserve_data \in BOOLEAN :
        \A target \in VersionsOf(versions, schema_id) :
            LET o == rollback(DB, schema_id, target.version_number, preserve_data, FALSE)
                again == rollback(o.db, schema_id, target.version_number, preserve_data, FALSE)
            IN  o.ok =>
                    /\ {Attributes(d) : d \in LoadFields(o.db.fields, schema_id, FALSE)}
                           = {Attributes(d) : d \in {e \in target.schema_snapshot : ~e.deleted}}
                    /\ again.ok => again.db.fields = o.db.fields
                    /\ \A f \in {g \in FieldsOf(fields, schema_id) : ~g.is_deleted} :
                           LET described == modify_field(DB, schema_id, f.field_name, "None",
                                                         NULL, NULL, PyStr("x"), <<>>, FALSE)
                               back == rollback(described.db, schema_id, target.version_number,
                                                preserve_data, FALSE)
                           IN  (described.ok /\ back.ok) =>
                                   {Attributes(d) : d \in LoadFields(back.db.fields, schema_id, FALSE)}
                                       = {Attributes(d) : d \in {e \in target.schema_snapshot : ~e.deleted}}

\* thread t is between the first query and the commit of create_snapshot or
\* rollback
InVersionControl(t) ==
    pc[t] \in {"snapshot_commit", "rollback_commit"}

\* C27: no thread is inside create_snapshot or rollback of a schema while
\* another thread is inside the with schema_lock block of add_field or inside
\* create_snapshot or rollback of the same schema, and no two threads hold
\* the same latest version number for their next SchemaVersion row.
C27_VersionControlSerialized ==
    \A t, u \in Threads :
        (t # u /\ InVersionControl(t) /\ tlocal[t].schema_id = tlocal[u].schema_id) =>
            /\ ~InVersionControl(u)
            /\ ~(InBody(u) /\ pc[u] # "release")
            /\ ~(pc[t] = "snapshot_commit" /\ pc[u] = "body_commit"
                 /\ tlocal[t].version_number = tlocal[u].version_number)

\* C29: on the shared catalog, whenever no add_field is between its commit
\* and the end of its invalidate_schema call, every cached field list of a
\* schema is the list the database holds, also when the lookup that cached
\* it overlapped the add_field.
C29_NoStaleEntryAfterInvalidate ==
    \A schema_id \in DOMAIN schemas :
        FieldsKey(schema_id, FALSE) \in DOMAIN cache[SharedCatalog] =>
            cache[SharedCatalog][FieldsKey(schema_id, FALSE)]
                = LoadFields(fields, schema_id, FALSE)

\* the locks thread t owns
Held(t) == {l \in DOMAIN lockOwner : lockOwner[l] = t}

====
